---- MODULE Spec2Model ----
(***************************************************************************)
(* Model of the template composition and caching engine of                 *)
(* middleware/render/standard (type Standard): the compiled-tree cache     *)
(* CachedRelation, the engine mutex taken by Render, the unlocked Fetch,   *)
(* the watch callback registered by Init, ClearCache and Close.            *)
(*                                                                         *)
(* Requests are goroutines that call Render or Fetch; one call is a        *)
(* sequence of steps (lookup, read, extend hop, compile, store, execute,   *)
(* return) that interleave with the steps of the other requests and with   *)
(* the administrative operations, which take no lock in the source.        *)
(* (Spec).                                                                 *)
(*                                                                         *)
(* The text pipeline of parse (Extend chain, blocks, includes, function    *)
(* clips, the named definitions and the execution of the result) is        *)
(* followed on documents written as directive sequences, one top-level     *)
(* parse on a fresh engine per directory of the bounded input (DocSpec).   *)
(***************************************************************************)
EXTENDS Integers, FiniteSets, Sequences, TLC

(***************************************************************************)
(* Bounds of the model.                                                    *)
(***************************************************************************)
MaxChanges == 1      \* file change events delivered by the watcher
MaxCalls == 2        \* Render and Fetch calls issued in one run
MaxMonitors == 1     \* functions registered with MonitorEvent

(***************************************************************************)
(* Program constants.                                                      *)
(***************************************************************************)
MaxHops == 10        \* for i := 0; i < 10 && len(m) > 0; i++

TemplateDir == "tpl"
Ext == ".html"
DelimLeft == "{{"

Req == {"r1", "r2"}                 \* request goroutines, one context each
None == "none"

(***************************************************************************)
(* The template files of the bounded input.  "a" extends the layout "l",   *)
(* "l" includes the partial "p"; "{{x" is a logical name that contains     *)
(* the left delimiter and has no file.                                     *)
(***************************************************************************)
Names == {"a", "l", "p", "{{x"}
DelimNames == {"{{x"}
WatchedNames == {"a", "l", "p"}   \* the files of the watched directory
CallNames == {"a", "p", "{{x"}     \* the logical names requests render
EventKinds == {"create", "delete", "modify", "rename"}
EntryTypes == {"file", "dir"}
DataValues == {"ok", "bad"}        \* data the tree evaluates, data it cannot

\* TmplPath: filepath.Join(TemplateDir, name + Ext), the cache key of a name
TmplPath(n) == [dir |-> TemplateDir, file |-> n, ext |-> Ext]

Paths == {TmplPath(n) : n \in Names}

\* the first (anchored) Extend directive of a file: the next hop of the chain
ExtendOf(n) == IF n = "a" THEN "l" ELSE None

\* the Include directives of a file
IncludesOf(n) == IF n \in {"l", "p"} THEN {"p"} ELSE {}

\* the paired Block definitions of a file
BlocksOf(n) == IF n = "a" THEN {"x", "orphan"} ELSE IF n = "l" THEN {"x"} ELSE {}

\* whether version v of a file is malformed for the evaluator: the partial
\* is broken by every odd edit and repaired by every even one
Malformed(n, v) == n = "p" /\ v % 2 = 1

VARIABLES
    fs,         \* content source: path -> [exists, ver]
    changes,    \* number of file change events so far
    calls,      \* number of Render and Fetch calls so far
    watching,   \* the callback of Init is registered with the manager
    monitors,   \* len(self.fileEvents)
    notified,   \* how many monitor calls the last event made, and with which name
    handled,    \* path -> version of the last change whose callback ran to the end
    cache,      \* self.CachedRelation: key -> CcRel
    mutex,      \* self.mutex: the request that holds it, or None
    flag,       \* per request context: `webx:render.locked`
    th,         \* per request: the call in progress
    failed,     \* keys whose last parse ended in an error, no clear or event since
    conf,       \* the delimiter pair and the tag keywords of the engine
    regex,      \* the match patterns InitRegexp derived, and from which strings
    scanned,    \* the patterns and the configuration of the last scan of a parse
    lp,         \* the loop of ParseExtend over the paired blocks of a layout
    elock,      \* per engine instance: the request context that holds its mutex
    cflag,      \* per request context: `webx:render.locked`, shared by all engines
    frames,     \* per request context: the Render calls in progress, innermost last
    provider,   \* per engine: how the provider set with SetFuncMap behaves, None when unset
    emap,       \* per engine: the map a provider that keeps one map returns
    binding,    \* the map the last parse bound, for which request and engine
    emgr,       \* per engine: its manager (TemplateMgr, Mgr), None for nil
    closed,     \* per manager: Close has been called on it
    watches,    \* the <<manager, engine>> pairs with a watch directory and callback
    pfs,        \* pongo2: file stem -> [exists, ver] of the template directory
    templates,  \* pongo2: a.templates, key -> the version of each file the compilation read
    targets,    \* proxy balancer: b.targets, the names of the targets in list order
    bi,         \* round-robin balancer: b.i
    pt,         \* per goroutine: its call on the balancer and where it stands
    bops,       \* number of balancer calls so far
    files,      \* the documents of the template directory, as directive sequences
    funcs,      \* the names with a func(string, string) string in the context
    rs          \* one top-level parse followed step by step on those documents

vars == <<fs, changes, calls, watching, monitors, notified, handled, cache, mutex, flag, th, failed,
          conf, regex, scanned, lp, elock, cflag, frames, provider, emap, binding,
          emgr, closed, watches,
          pfs, templates,
          targets, bi, pt, bops,
          files, funcs, rs>>

\* the engine instances of one process and the Render calls on them
lockvars == <<elock, cflag, frames>>

\* the engine-level function provider and the map a parse binds
fnvars == <<provider, emap, binding>>

\* the managers of the engines
mgrvars == <<emgr, closed, watches>>

\* the template directory and the cache of the pongo2 engine
pongovars == <<pfs, templates>>

\* the proxy balancer and the goroutines that call it
proxyvars == <<targets, bi, pt, bops>>

\* the variables of the components beside the standard engine
sidevars == <<lockvars, fnvars, mgrvars, pongovars, proxyvars>>

\* the other components, for the actions of one
besideLock == <<fnvars, mgrvars, pongovars, proxyvars>>
besideFn == <<lockvars, mgrvars, pongovars, proxyvars>>
besideMgr == <<lockvars, fnvars, pongovars, proxyvars>>
besidePongo == <<lockvars, fnvars, mgrvars, proxyvars>>
besideProxy == <<lockvars, fnvars, mgrvars, pongovars>>



\* the configuration of the engine, its patterns, and their use
confvars == <<conf, regex, scanned>>

\* the variables of the text pipeline of parse
docvars == <<files, funcs, rs>>

\* the variables of the cache, the lock and the requests
enginevars == <<fs, changes, calls, watching, monitors, notified, handled, cache, mutex, flag, th, failed>>

(***************************************************************************)
(* Values.                                                                 *)
(***************************************************************************)
NoTree == [kind |-> "nil"]
NoErr == [kind |-> "none"]
NoOut == [kind |-> "nothing"]

LoadErr(p) == [kind |-> "load", path |-> p]
ParseErr(p) == [kind |-> "parse", path |-> p]
SubParseErr(p) == [kind |-> "subparse", path |-> p]
ExecErr(p) == [kind |-> "exec", path |-> p]

\* the versions read so far: a map from the paths read to their versions
NoVers == [p \in {} |-> 0]

WithVer(vs, p, v) == [x \in DOMAIN vs \cup {p} |-> IF x = p THEN v ELSE vs[x]]

\* a compiled template: the versions of the files its text was composed of
\* and the request whose function map is bound to it
Tree(p, vs, r) == [kind |-> "tree", key |-> p, vers |-> vs, text |-> NoErr, funcs |-> r]

\* a template whose whole text is a diagnostic message
DiagTree(p, e, r) == [kind |-> "tree", key |-> p, vers |-> NoVers, text |-> e, funcs |-> r]

\* err.Error() of a load error names the path, so it contains the left
\* delimiter exactly when the logical name does
HasDelim(e) == e.kind \in {"load", "subload"} /\ e.path.file \in DelimNames

\* html/template Parse of a literal message: (nil, err) when the text holds
\* an unterminated action; the callers drop the error (tmpl, _ = t.Parse(..))
ParseLiteral(p, e, r) == IF HasDelim(e) THEN NoTree ELSE DiagTree(p, e, r)

NewRel(k, t1) == [rel |-> {k}, tpl0 |-> NoTree, tpl1 |-> t1, blocks |-> {}]

\* the monitor functions were not called
NoCalls == [n |-> 0, name |-> TmplPath("a")]

EmptyCache == [k \in {} |-> NewRel(k, NoTree)]

\* no Render call of the request is suspended
NoOuter == [pc |-> "none"]

\* no nested Render call has returned into this call
NoInner == [kind |-> "none"]

IdleCall == [pc |-> "idle", op |-> None, name |-> None, key |-> TmplPath("a"),
             locked |-> FALSE, rel |-> NewRel(TmplPath("a"), NoTree), shared |-> FALSE,
             vers |-> NoVers, m |-> None, cur |-> None, i |-> 0, subcs |-> {}, extcs |-> {},
             tmpl |-> NoTree, perr |-> NoErr, err |-> NoErr, out |-> NoOut,
             panicked |-> FALSE, reads |-> 0, hit |-> FALSE, afterFail |-> FALSE,
             outer |-> NoOuter, inner |-> NoInner]

\* the engine returned by New
\* New, lines 53-61: the default delimiter pair and tag keywords (of the
\* tag keywords the model follows IncludeTag and BlockTag)
DefaultConf == [DelimLeft |-> "{{", DelimRight |-> "}}",
                IncludeTag |-> "Include", BlockTag |-> "Block"]

\* regexp.QuoteMeta on the delimiter strings of the bounded input
QuoteMeta(s) == IF s = "{{" THEN "\\{\\{"
                ELSE IF s = "}}" THEN "\\}\\}"
                ELSE IF s = "[[" THEN "\\[\\["
                ELSE IF s = "]]" THEN "\\]\\]"
                ELSE s

\* InitRegexp, lines 231-256: the patterns, as the strings they are built from
Patterns(c) ==
    [quotedLeft |-> QuoteMeta(c.DelimLeft), quotedRight |-> QuoteMeta(c.DelimRight),
     incTagRegex |-> <<QuoteMeta(c.DelimLeft), c.IncludeTag, QuoteMeta(c.DelimRight)>>,
     blkTagRegex |-> <<QuoteMeta(c.DelimLeft), c.BlockTag, QuoteMeta(c.DelimRight)>>]

\* no parse has scanned a document
NoScan == [kind |-> "none"]

\* the loop of ParseExtend is not followed
NoLoop == [n |-> 0]

\* the engine instances of the process: each has its own mutex
Engines == {"standard", "pongo2"}

\* the request contexts
Contexts == {"c1", "c2"}

\* no Render call is in progress on any engine instance
LocksIdle ==
    /\ elock = [e \in Engines |-> None]
    /\ cflag = [c \in Contexts |-> FALSE]
    /\ frames = [c \in Contexts |-> <<>>]

\* the names of the entries of a function map: T is defined by the engine
\* and may be redefined by a request, user only by requests, hasBlock by
\* setFunc, value by the pongo2 driver for data that is not a map
EntryNames == {"T", "user", "hasBlock", "value"}

\* a map with no entry
NoEntries == [n \in EntryNames |-> None]

\* the entries of the engine-level map as the application filled it
EngineFuncs == [n \in EntryNames |-> IF n = "T" THEN "engine" ELSE None]

NoBound == [ctx |-> None, engine |-> None, supplied |-> {}, funcs |-> NoEntries]

\* no provider is set and no parse has bound a map
FuncsIdle ==
    /\ provider = [e \in Engines |-> None]
    /\ emap = [e \in Engines |-> EngineFuncs]
    /\ binding = NoBound

\* manager.Default, shared by the engines of the process, and two managers
\* the application made itself
Managers == {"Default", "m1", "m2"}

\* every engine was made by New and holds the default manager, which runs
ManagersIdle ==
    /\ emgr = [e \in Engines |-> "Default"]
    /\ closed = [m \in Managers |-> FALSE]
    /\ watches = {}

\* the template files of the pongo2 engine by name without extension: page
\* extends layout and includes part, home extends base
Stems == {"page", "part", "home", "layout", "base"}

\* Pongo2.Init, pongo2.go:169: an empty cache; every template file exists
PongoIdle ==
    /\ pfs = [s \in Stems |-> [exists |-> TRUE, ver |-> 0]]
    /\ templates = <<>>

\* the goroutines that call the balancer and the names of targets
Procs == {"g1", "g2"}

TargetNames == {"a", "b", "c"}

\* a goroutine that is in no call
IdleProc == [op |-> None, pc |-> "idle", name |-> None, ret |-> FALSE, got |-> None,
             k |-> 0, n |-> 0]

\* NewRoundRobinBalancer, proxy.go:157-162, with two targets of distinct
\* names; no call has been made
ProxyIdle ==
    /\ targets = <<"a", "b">>
    /\ bi = 0
    /\ pt = [p \in Procs |-> IdleProc]
    /\ bops = 0

\* the components beside the standard engine are at rest
SideIdle == LocksIdle /\ FuncsIdle /\ ManagersIdle /\ PongoIdle /\ ProxyIdle

NewEngine ==
    /\ conf = DefaultConf
    /\ regex = Patterns(DefaultConf)
    /\ scanned = NoScan
    /\ fs = [p \in Paths |-> [exists |-> p.file \in WatchedNames, ver |-> 0]]
    /\ changes = 0
    /\ calls = 0
    /\ watching = FALSE
    /\ monitors = 0
    /\ notified = NoCalls
    /\ handled = [p \in Paths |-> 0]
    /\ cache = EmptyCache
    /\ mutex = None
    /\ flag = [r \in Req |-> FALSE]
    /\ th = [r \in Req |-> IdleCall]
    /\ failed = {}

\* no document is followed through the text pipeline
NoFiles == [p \in {} |-> <<>>]
NoRun == [pc |-> "off"]

Init ==
    /\ NewEngine
    /\ SideIdle
    /\ lp = NoLoop
    /\ files = NoFiles
    /\ funcs = {}
    /\ rs = NoRun

(***************************************************************************)
(* Helpers on the cache map and on the CcRel objects requests point to.    *)
(***************************************************************************)
Put(c, k, v) == [x \in DOMAIN c \cup {k} |-> IF x = k THEN v ELSE c[x]]

HasStandalone(c, k) == k \in DOMAIN c /\ c[k].tpl0 # NoTree

\* a request that looked its key up keeps the pointer rel to the CcRel it
\* found; when the map (or that slot) is replaced the object stays alive,
\* reachable from that request only
Detach(t, c, keys) ==
    [r \in Req |-> IF t[r].shared /\ t[r].key \in keys /\ t[r].key \in DOMAIN c
                   THEN [t[r] EXCEPT !.rel = c[t[r].key], !.shared = FALSE]
                   ELSE t[r]]

\* RawContent: the bytes of a path, or the load error of the content source
Readable(p) == fs[p].exists

(***************************************************************************)
(* parse, lines 276-314: cache key, cache lookup, function map binding.    *)
(* A standalone hit returns the cached tree after binding the caller's     *)
(* function map onto it; a miss keeps the CcRel found under the key, or    *)
(* makes a fresh one, and goes on to read the source.                      *)
(***************************************************************************)
\* a Render call that is executing its tree when the evaluation calls Render
\* again with the same context: the outer call waits for the nested one
Suspended(t) ==
    IF t.pc = "parsed"
    THEN [t EXCEPT !.rel = IdleCall.rel, !.shared = FALSE, !.vers = NoVers, !.m = None,
                   !.cur = None, !.i = 0, !.subcs = {}, !.extcs = {}]
    ELSE NoOuter

\* hit only when both tree slots are filled
ParseHit_BothSlots(c, k) == k \in DOMAIN c /\ c[k].tpl0 # NoTree /\ c[k].tpl1 # NoTree

ParseHit(c, k) == k \in DOMAIN c /\ c[k].tpl0 # NoTree

\* the call record of a hit that returns the tree as it was last bound
Hit_KeepsBinding(c, r, op, n, lk) ==
    LET k == TmplPath(n)
    IN  [IdleCall EXCEPT !.op = op, !.name = n, !.key = k, !.locked = lk,
                         !.afterFail = (k \in failed),
                         !.pc = "parsed", !.hit = TRUE, !.outer = Suspended(th[r]),
                         !.tmpl = c[k].tpl0]

\* the call record of a hit, lines 291-296: the function map of the caller
\* (with hasBlock and hasAnyBlock, setFunc) is bound onto the cached tree
Hit(c, r, op, n, lk) ==
    LET k == TmplPath(n)
    IN  [IdleCall EXCEPT !.op = op, !.name = n, !.key = k, !.locked = lk,
                         !.afterFail = (k \in failed),
                         !.pc = "parsed", !.hit = TRUE, !.outer = Suspended(th[r]),
                         !.tmpl = [c[k].tpl0 EXCEPT !.funcs = r]]

\* the call record of a miss, lines 305-314
Miss(c, r, op, n, lk) ==
    LET k == TmplPath(n)
    IN  [IdleCall EXCEPT !.op = op, !.name = n, !.key = k, !.locked = lk,
                         !.afterFail = (k \in failed),
                         !.pc = "read", !.outer = Suspended(th[r]),
                         !.rel = IF k \in DOMAIN c THEN c[k] ELSE NewRel(k, NoTree),
                         !.shared = (k \in DOMAIN c)]

\* parse, lines 316-325: read the top-level file, find its Extend directive
ReadMain(t, r) ==
    LET k == t.key
    IN  IF ~Readable(k)
        THEN [t EXCEPT !.perr = LoadErr(k),
                       !.tmpl = ParseLiteral(k, LoadErr(k), r),
                       !.reads = @ + 1,
                       !.pc = "parsed"]
        ELSE [t EXCEPT !.vers = WithVer(@, k, fs[k].ver),
                       !.m = ExtendOf(t.name),
                       !.cur = t.name,
                       !.reads = @ + 1,
                       !.pc = IF ExtendOf(t.name) # None THEN "extend" ELSE "compile"]

\* the diagnostic tree of a load error is stored as the standalone tree
ParseBegin_CachesError(r, op, n, lk) ==
    LET k == TmplPath(n)
        t == ReadMain(Miss(cache, r, op, n, lk), r)
    IN  IF ParseHit(cache, k)
        THEN /\ cache' = [cache EXCEPT ![k].tpl0.funcs = r]
             /\ th' = [th EXCEPT ![r] = Hit(cache, r, op, n, lk)]
             /\ failed' = failed
        ELSE /\ cache' = IF Readable(k) \/ t.tmpl = NoTree THEN cache
                         ELSE Put(cache, k, [t.rel EXCEPT !.tpl0 = t.tmpl])
             /\ th' = [th EXCEPT ![r] = t]
             /\ failed' = IF Readable(k) THEN failed ELSE failed \cup {k}

\* parse, lines 276-325, as one step of the calling request
ParseBegin(r, op, n, lk) ==
    LET k == TmplPath(n)
    IN  IF ParseHit(cache, k)
        THEN /\ cache' = [cache EXCEPT ![k].tpl0.funcs = r]
             /\ th' = [th EXCEPT ![r] = Hit(cache, r, op, n, lk)]
             /\ failed' = failed
        ELSE /\ cache' = cache
             /\ th' = [th EXCEPT ![r] = ReadMain(Miss(cache, r, op, n, lk), r)]
             /\ failed' = IF Readable(k) THEN failed ELSE failed \cup {k}

\* a Render or Fetch call can start on a request that is in no call
Free(r) == th[r].pc \in {"idle", "done"}

\* the tree a Render call executes can call Render with the same context
Executing(r) == th[r].pc = "parsed" /\ th[r].op = "Render" /\ th[r].outer = NoOuter

\* the deferred release is registered whether or not the flag was set
Render_AlwaysDefers(r, n) ==
    /\ Free(r) \/ Executing(r)
    /\ calls < MaxCalls
    /\ calls' = calls + 1
    /\ IF flag[r]
       THEN /\ UNCHANGED <<flag, mutex>>
            /\ ParseBegin(r, "Render", n, TRUE)
       ELSE /\ mutex = None
            /\ flag' = [flag EXCEPT ![r] = TRUE]
            /\ mutex' = r
            /\ ParseBegin(r, "Render", n, TRUE)
    /\ UNCHANGED <<fs, changes, watching, monitors, notified, handled>>
    /\ UNCHANGED <<docvars, confvars, lp, sidevars>>

\* Render, lines 259-268: the guard flag of the context, the engine lock,
\* then parse
Render(r, n) ==
    /\ Free(r) \/ Executing(r)
    /\ calls < MaxCalls
    /\ calls' = calls + 1
    /\ IF flag[r]
       THEN /\ UNCHANGED <<flag, mutex>>
            /\ ParseBegin(r, "Render", n, FALSE)
       ELSE /\ mutex = None
            /\ flag' = [flag EXCEPT ![r] = TRUE]
            /\ mutex' = r
            /\ ParseBegin(r, "Render", n, TRUE)
    /\ UNCHANGED <<fs, changes, watching, monitors, notified, handled>>
    /\ UNCHANGED <<docvars, confvars, lp, sidevars>>

\* Fetch, lines 411-412: parse without the lock
Fetch(r, n) ==
    /\ Free(r)
    /\ calls < MaxCalls
    /\ calls' = calls + 1
    /\ ParseBegin(r, "Fetch", n, FALSE)
    /\ UNCHANGED <<fs, changes, watching, monitors, notified, handled, flag, mutex>>
    /\ UNCHANGED <<docvars, confvars, lp, sidevars>>

\* parse, lines 326-347: one hop of the Extend chain; ParseBlock harvests the
\* blocks of the current body, the parent is read, ParseExtend keeps the
\* blocks the parent names, and the parent's key is registered in the cache
ExtendHop(r) ==
    /\ th[r].pc = "extend"
    /\ th[r].i < MaxHops /\ th[r].m # None
    /\ LET k == th[r].key
           extFile == TmplPath(th[r].m)
           next == ExtendOf(th[r].m)
       IN  IF ~Readable(extFile)
           THEN /\ th' = [th EXCEPT ![r].perr = LoadErr(extFile),
                                    ![r].tmpl = ParseLiteral(k, LoadErr(extFile), r),
                                    ![r].reads = @ + 1,
                                    ![r].pc = "parsed"]
                /\ failed' = failed \cup {k}
                /\ cache' = cache
           ELSE /\ th' = [th EXCEPT ![r].vers = WithVer(@, extFile, fs[extFile].ver),
                                    ![r].extcs = (@ \cup BlocksOf(th[r].cur)) \cap BlocksOf(th[r].m),
                                    ![r].cur = th[r].m,
                                    ![r].m = next,
                                    ![r].i = @ + 1,
                                    ![r].reads = @ + 1,
                                    ![r].pc = IF next # None /\ th[r].i + 1 < MaxHops
                                              THEN "extend" ELSE "compile"]
                /\ failed' = failed
                /\ cache' = IF extFile \notin DOMAIN cache
                            THEN Put(cache, extFile, NewRel(k, NoTree))
                            ELSE [cache EXCEPT ![extFile].rel = @ \cup {k}]
    /\ UNCHANGED <<calls, fs, changes, watching, monitors, notified, handled, mutex, flag>>
    /\ UNCHANGED <<docvars, confvars, lp, sidevars>>

\* the text a tree was composed of is stale for the evaluator when one of
\* the chain files read for it is malformed (t.Parse(content), line 351)
ChainMalformed(vs) == \E p \in DOMAIN vs : Malformed(p.file, vs[p])

\* parse, lines 348-356: ContainsSubTpl reads the included files into the
\* pool (a file that cannot be read turns the body into the read error
\* message, which is not an error of parse), then the body is parsed
Compile(r) ==
    /\ th[r].pc = "compile"
    /\ LET k == th[r].key
           incs == {TmplPath(x) : x \in IncludesOf(th[r].cur)}
           missing == {p \in incs : ~Readable(p)}
           vs == [p \in DOMAIN th[r].vers \cup incs |->
                    IF p \in incs THEN fs[p].ver ELSE th[r].vers[p]]
       IN  IF missing # {}
           THEN /\ \E p \in missing :
                     th' = [th EXCEPT ![r].tmpl = [Tree(k, th[r].vers, r) EXCEPT
                                                      !.text = [kind |-> "subload", path |-> p]],
                                      ![r].reads = @ + Cardinality(incs),
                                      ![r].pc = "store"]
                /\ failed' = failed
           ELSE IF ChainMalformed(th[r].vers)
           THEN /\ th' = [th EXCEPT ![r].perr = ParseErr(k),
                                    ![r].tmpl = ParseLiteral(k, ParseErr(k), r),
                                    ![r].reads = @ + Cardinality(incs),
                                    ![r].pc = "parsed"]
                /\ failed' = failed \cup {k}
           ELSE /\ th' = [th EXCEPT ![r].tmpl = Tree(k, vs, r),
                                    ![r].vers = vs,
                                    ![r].subcs = incs,
                                    ![r].reads = @ + Cardinality(incs),
                                    ![r].pc = "store"]
                /\ failed' = failed
    /\ UNCHANGED <<calls, fs, changes, watching, monitors, notified, handled, cache, mutex, flag>>
    /\ UNCHANGED <<docvars, confvars, lp, sidevars>>

\* the orders in which a range over the map subcs can visit its keys
Orders(S) == {q \in [1..Cardinality(S) -> S] : \A i, j \in 1..Cardinality(S) : q[i] = q[j] => i = j}

\* parse, lines 357-388: one iteration of the loop over the pool.  st is
\* [c: the cache map, err: the error that ended the loop]; own is the tree
\* of the page when the pool path is the name of that tree (lines 365-366),
\* NoTree when it is not
StoreSub(st, s, k, vs, r, own) ==
    LET t == IF s = k /\ own # NoTree THEN own
             ELSE Tree(s, WithVer(NoVers, s, vs[s]), r)
    IN  IF st.err # NoErr THEN st
        ELSE IF s \in DOMAIN st.c /\ st.c[s].tpl1 # NoTree
        THEN [st EXCEPT !.c[s].rel = @ \cup {k}]
        ELSE IF ~(s = k /\ own # NoTree) /\ Malformed(s.file, vs[s])
        THEN [st EXCEPT !.err = SubParseErr(s)]
        ELSE IF s \in DOMAIN st.c
        THEN [st EXCEPT !.c[s].rel = @ \cup {k}, !.c[s].tpl1 = t]
        ELSE [st EXCEPT !.c = Put(st.c, s, NewRel(k, t))]

RECURSIVE StoreSubs(_, _, _, _, _, _, _)
StoreSubs(st, q, i, k, vs, r, own) ==
    IF i > Len(q) THEN st
    ELSE StoreSubs(StoreSub(st, q[i], k, vs, r, own), q, i + 1, k, vs, r, own)

\* parse, lines 403-407: the surviving block names, the standalone tree and
\* the CcRel are stored under the key
StoreStandalone(c, k, rel, shared, blocks, tmpl) ==
    LET obj == IF shared /\ k \in DOMAIN c THEN c[k] ELSE rel
    IN  Put(c, k, [obj EXCEPT !.blocks = @ \cup blocks, !.tpl0 = tmpl])

\* parse, lines 357-388: the loop over the pool, which stores the fragment
\* trees.  Whether the name of the page's tree (driver.CleanTemplateName of
\* the path) is the pool path itself is decided outside this file: both
\* outcomes are taken
StorePool(r) ==
    /\ th[r].pc = "store"
    /\ LET k == th[r].key
       IN  \E q \in Orders(th[r].subcs), own \in {NoTree, th[r].tmpl} :
             LET st == StoreSubs([c |-> cache, err |-> NoErr], q, 1, k, th[r].vers, r, own)
             IN  /\ cache' = st.c
                 /\ IF st.err # NoErr
                    THEN /\ th' = [th EXCEPT ![r].perr = st.err, ![r].pc = "parsed"]
                         /\ failed' = failed \cup {k}
                    ELSE /\ th' = [th EXCEPT ![r].pc = "bind"]
                         /\ failed' = failed
    /\ UNCHANGED <<calls, fs, changes, watching, monitors, notified, handled, mutex, flag>>
    /\ UNCHANGED <<docvars, confvars, lp, sidevars>>

\* parse, lines 389-408: the loop over the block set, then the standalone
\* tree and the CcRel are stored under the key
Store(r) ==
    /\ th[r].pc = "bind"
    /\ LET k == th[r].key
       IN  /\ cache' = StoreStandalone(cache, k, th[r].rel, th[r].shared,
                                       th[r].extcs, th[r].tmpl)
           /\ th' = [Detach(th, cache, IF th[r].shared THEN {} ELSE {k})
                        EXCEPT ![r].pc = "parsed"]
           /\ failed' = failed \ {k}
    /\ UNCHANGED <<calls, fs, changes, watching, monitors, notified, handled, mutex, flag>>
    /\ UNCHANGED <<docvars, confvars, lp, sidevars>>

\* what executing a tree writes: the text of the tree as it was compiled
Page(t) == [kind |-> "page", text |-> t.text, key |-> t.key, vers |-> t.vers]

\* ExecuteTemplate fails on data the template's actions cannot evaluate; a
\* literal text has no action
ExecFails(t, d) == t.text = NoErr /\ d = "bad"

\* the locals of parse die when the call returns; what stays is what the
\* caller observes
Returned(t) ==
    IF t.outer # NoOuter
    THEN [t.outer EXCEPT !.inner = [kind |-> "returned", name |-> t.name, hit |-> t.hit,
                                    err |-> t.err, out |-> t.out]]
    ELSE [t EXCEPT !.pc = "done", !.rel = IdleCall.rel, !.shared = FALSE,
                   !.vers = NoVers, !.m = None, !.cur = None, !.i = 0,
                   !.subcs = {}, !.extcs = {}]

\* Render, lines 263-273: the error of parse is returned and nothing is
\* written; otherwise the tree is executed into the writer; the deferred
\* function then releases the lock and removes the guard flag
\* the lock is released at the end of the successful path only
RenderDeferred_OnSuccess(lk, mx, e) == IF lk /\ e = NoErr THEN None ELSE mx

RenderDeferred(lk, mx, e) == IF lk THEN None ELSE mx

RenderResult(t, d) ==
    IF t.perr # NoErr
    THEN [t EXCEPT !.err = t.perr, !.out = NoOut]
    ELSE IF ExecFails(t.tmpl, d)
    THEN [t EXCEPT !.err = ExecErr(t.key), !.out = NoOut]
    ELSE [t EXCEPT !.out = Page(t.tmpl)]

RenderExecute(r, d) ==
    /\ th[r].pc = "parsed"
    /\ th[r].op = "Render"
    /\ th' = [th EXCEPT ![r] = Returned(RenderResult(th[r], d))]
    /\ mutex' = RenderDeferred(th[r].locked, mutex, RenderResult(th[r], d).err)
    /\ flag' = [flag EXCEPT ![r] = IF th[r].locked THEN FALSE ELSE @]
    /\ UNCHANGED <<calls, fs, changes, watching, monitors, notified, handled, cache, failed>>
    /\ UNCHANGED <<docvars, confvars, lp, sidevars>>

\* Fetch, line 413, and execute, lines 416-423: the error of parse is
\* dropped and whatever tree parse returned is executed; tmpl.Name() on the
\* nil tree is a nil pointer dereference
FetchResult(t, d) ==
    IF t.tmpl = NoTree
    THEN [t EXCEPT !.panicked = TRUE]
    ELSE IF ExecFails(t.tmpl, d)
    THEN [t EXCEPT !.out = [kind |-> "text", text |-> ExecErr(t.key)]]
    ELSE [t EXCEPT !.out = Page(t.tmpl)]

FetchExecute(r, d) ==
    /\ th[r].pc = "parsed"
    /\ th[r].op = "Fetch"
    /\ th' = [th EXCEPT ![r] = Returned(FetchResult(th[r], d))]
    /\ UNCHANGED <<calls, fs, changes, watching, monitors, notified, handled, cache, mutex, flag, failed>>
    /\ UNCHANGED <<docvars, confvars, lp, sidevars>>

(***************************************************************************)
(* Administrative operations; none of them takes the engine lock.          *)
(***************************************************************************)
\* Init, lines 187-206: register the callback and start the content source
EngineInit ==
    /\ regex' = Patterns(conf)
    /\ watching' = TRUE
    /\ UNCHANGED <<calls, fs, changes, monitors, notified, handled, cache, mutex, flag, th, failed>>
    /\ UNCHANGED <<docvars, conf, scanned, lp, sidevars>>

\* MonitorEvent, lines 151-156
MonitorEvent ==
    /\ monitors < MaxMonitors
    /\ monitors' = monitors + 1
    /\ UNCHANGED <<calls, fs, changes, watching, notified, handled, cache, mutex, flag, th, failed>>
    /\ UNCHANGED <<docvars, confvars, lp, sidevars>>

\* only the manager's cache is cleared
ClearCache_KeepsMap ==
    /\ cache' = cache
    /\ th' = th
    /\ failed' = {}
    /\ UNCHANGED <<calls, fs, changes, watching, monitors, notified, handled, mutex, flag>>
    /\ UNCHANGED <<docvars, confvars, lp, sidevars>>

\* ClearCache, lines 617-622
ClearCache ==
    /\ cache' = EmptyCache
    /\ th' = Detach(th, cache, DOMAIN cache)
    /\ failed' = {}
    /\ UNCHANGED <<calls, fs, changes, watching, monitors, notified, handled, mutex, flag>>
    /\ UNCHANGED <<docvars, confvars, lp, sidevars>>

\* Close, lines 624-634: ClearCache, then the watch and the callback of
\* this engine are cancelled on the manager
Close ==
    /\ cache' = EmptyCache
    /\ th' = Detach(th, cache, DOMAIN cache)
    /\ failed' = {}
    /\ watching' = FALSE
    /\ UNCHANGED <<calls, fs, changes, monitors, notified, handled, mutex, flag>>
    /\ UNCHANGED <<docvars, confvars, lp, sidevars>>

\* deleteCachedRelation, lines 169-185
\* the map is replaced whatever the name is
deleteCachedRelation_AnyName(c, name) == EmptyCache

deleteCachedRelation(c, name) == IF name \in DOMAIN c THEN EmptyCache ELSE c

\* the entry type is not looked at
Qualifies_AnyType(typ, event) == event \in {"delete", "modify", "rename"}

\* the callback of Init, lines 189-201: whether the event reaches
\* deleteCachedRelation and the monitor functions
Qualifies(typ, event) == event \in {"delete", "modify", "rename"} /\ typ # "dir"

\* what the change does to the file behind the event
Changed(f, typ, event) ==
    IF typ = "dir" THEN f
    ELSE IF event = "create" THEN [exists |-> TRUE, ver |-> f.ver + 1]
    ELSE IF event = "modify" THEN [exists |-> TRUE, ver |-> f.ver + 1]
    ELSE [exists |-> FALSE, ver |-> f.ver + 1]

\* a change of a watched entry, and the callback the manager then runs
FileEvent(n, typ, event) ==
    /\ changes < MaxChanges
    /\ typ = "file" => (fs[TmplPath(n)].exists <=> event # "create")
    /\ LET name == TmplPath(n)
           run == watching /\ Qualifies(typ, event)
       IN  /\ fs' = [fs EXCEPT ![name] = Changed(@, typ, event)]
           /\ changes' = changes + 1
           /\ cache' = IF run THEN deleteCachedRelation(cache, name) ELSE cache
           /\ th' = IF run /\ name \in DOMAIN cache THEN Detach(th, cache, DOMAIN cache) ELSE th
           /\ notified' = IF run /\ monitors > 0 THEN [n |-> monitors, name |-> name] ELSE NoCalls
           /\ handled' = IF run THEN [handled EXCEPT ![name] = fs'[name].ver] ELSE handled
           /\ failed' = IF run THEN {} ELSE failed
    /\ UNCHANGED <<calls, watching, monitors, mutex, flag>>
    /\ UNCHANGED <<docvars, confvars, lp, sidevars>>

Next ==
    \/ \E r \in Req, n \in CallNames : Render(r, n)
    \/ \E r \in Req, n \in CallNames : Fetch(r, n)
    \/ \E r \in Req : ExtendHop(r)
    \/ \E r \in Req : Compile(r)
    \/ \E r \in Req : StorePool(r)
    \/ \E r \in Req : Store(r)
    \/ \E r \in Req, d \in DataValues : RenderExecute(r, d)
    \/ \E r \in Req, d \in DataValues : FetchExecute(r, d)
    \/ EngineInit
    \/ MonitorEvent
    \/ ClearCache
    \/ Close
    \/ \E n \in WatchedNames, typ \in EntryTypes, event \in EventKinds : FileEvent(n, typ, event)

Spec == Init /\ [][Next]_vars

(***************************************************************************)
(* The text pipeline of parse: a document is the sequence of its           *)
(* directives and of the text between them.  The regular expressions of    *)
(* InitRegexp find directives; strings.Replace and strings.Contains work   *)
(* on the text, so they are searches for a subsequence.                    *)
(***************************************************************************)
MaxDepth == 3        \* nesting of template calls an execution follows

\* text between directives; " " is white space
Txt(s) == [t |-> "txt", a |-> s, b |-> ""]
\* {{Include "f"}}
Inc(f) == [t |-> "inc", a |-> f, b |-> ""]
\* {{Extend "f"}}
Ext_(f) == [t |-> "ext", a |-> f, b |-> ""]
\* {{Block "n"}} and {{/Block}}
Blk(n) == [t |-> "blk", a |-> n, b |-> ""]
EndBlk == [t |-> "end", a |-> "", b |-> ""]
\* {{Block "n"/}}
Rpl(n) == [t |-> "rpl", a |-> n, b |-> ""]
\* {{Super}}, which is Tag(SuperTag), and the text {{Super/}}
Super == [t |-> "sup", a |-> "", b |-> ""]
SuperSelfClosed == [t |-> "supsc", a |-> "", b |-> ""]
\* {{Function "f" arg}}
Fn(f, arg) == [t |-> "fn", a |-> f, b |-> arg]
\* {{template "name" pass}} for the definition of an included file
TplFile(f, pass) == [t |-> "tplf", a |-> f, b |-> pass]
\* {{template "name" pass}} for the definition of a block
TplBlock(n, pass) == [t |-> "tplb", a |-> n, b |-> pass]
\* the string a registered callback returns for (tmplOriginalName, arg)
Clip(f, arg) == [t |-> "clip", a |-> f, b |-> arg]
\* the text of an error message
ErrText(kind, name) == [t |-> "err", a |-> kind, b |-> name]

\* the first place at or after i where old occurs in s, 0 when there is none
RECURSIVE IndexFrom(_, _, _)
IndexFrom(s, old, i) ==
    IF i + Len(old) - 1 > Len(s) THEN 0
    ELSE IF SubSeq(s, i, i + Len(old) - 1) = old THEN i
    ELSE IndexFrom(s, old, i + 1)

\* strings.Contains(s, old)
Contains(s, old) == IndexFrom(s, old, 1) # 0

\* strings.Replace(s, old, new, 1)
ReplaceFirst(s, old, new) ==
    LET i == IndexFrom(s, old, 1)
    IN  IF i = 0 THEN s
        ELSE SubSeq(s, 1, i - 1) \o new \o SubSeq(s, i + Len(old), Len(s))

\* strings.Replace(s, old, new, -1)
RECURSIVE ReplaceAll(_, _, _)
ReplaceAll(s, old, new) ==
    LET i == IndexFrom(s, old, 1)
    IN  IF i = 0 THEN s
        ELSE SubSeq(s, 1, i - 1) \o new
             \o ReplaceAll(SubSeq(s, i + Len(old), Len(s)), old, new)

\* the first place at or after i that holds a directive of kind t
RECURSIVE FindKind(_, _, _)
FindKind(s, t, i) ==
    IF i > Len(s) THEN 0
    ELSE IF s[i].t = t THEN i
    ELSE FindKind(s, t, i + 1)

\* the directives of kind t of a document, in order (FindAllStringSubmatch)
Matches(s, t) == SelectSeq(s, LAMBDA v : v.t = t)

\* extTagRegex, FindAllStringSubmatch(content, 1): the Extend directive at
\* the very start of the document, white space before it aside
\* the first Extend directive, wherever it stands
ExtendMatch_Anywhere(s, i) ==
    IF FindKind(s, "ext", i) = 0 THEN <<>> ELSE <<s[FindKind(s, "ext", i)]>>

\* the result is m: empty, or the one directive found
RECURSIVE ExtendMatch(_, _)
ExtendMatch(s, i) ==
    IF i > Len(s) THEN <<>>
    ELSE IF s[i] = Txt(" ") THEN ExtendMatch(s, i + 1)
    ELSE IF s[i].t = "ext" THEN <<s[i]>>
    ELSE <<>>

\* blkTagRegex, FindAllStringSubmatch(content, -1): every opening tag with
\* the nearest closing tag after it; the search goes on after the match
RECURSIVE BlockMatches(_, _)
BlockMatches(s, i) ==
    LET j == FindKind(s, "blk", i)
        k == IF j = 0 THEN 0 ELSE FindKind(s, "end", j + 1)
    IN  IF k = 0 THEN <<>>
        ELSE <<[matched |-> SubSeq(s, j, k), name |-> s[j].a,
                inner |-> SubSeq(s, j + 1, k - 1)]>>
             \o BlockMatches(s, k + 1)

\* a finite map with key k set to v
With(f, k, v) == [x \in DOMAIN f \cup {k} |-> IF x = k THEN v ELSE f[x]]

\* RawContent on the documents of the directory
HasFile(n) == TmplPath(n) \in DOMAIN files

\* how often a key was counted
Count(f, k) == IF k \in DOMAIN f THEN f[k] ELSE 0

\* the default pass object of a directive
PassOf(v) == IF v.b = "" THEN "." ELSE v.b

\* a path is skipped only while its own expansion is going on
InPool_WhileOpen(st, tmplFile) == tmplFile \in DOMAIN st.subcs /\ st.subcs[tmplFile] = <<>>

\* ContainsSubTpl, line 518: the path has an entry in the pool
InPool(st, tmplFile) == tmplFile \in DOMAIN st.subcs

\* ContainsSubTpl, lines 510-538.  st is [subcs: the pool, loads: how often
\* each path was read]; the result is [content, st].  A path is entered in
\* the pool with an empty body before its own directives are expanded
RECURSIVE ContainsSubTpl(_, _)
RECURSIVE SubTplLoop(_, _, _, _)
ContainsSubTpl(content, st) == SubTplLoop(Matches(content, "inc"), 1, content, st)

SubTplLoop(ms, i, content, st) ==
    IF i > Len(ms) THEN [content |-> content, st |-> st]
    ELSE LET v == ms[i]
             tmplFile == TmplPath(v.a)
             ref == <<TplFile(v.a, PassOf(v))>>
         IN  IF InPool(st, tmplFile)
             THEN SubTplLoop(ms, i + 1, ReplaceAll(content, <<v>>, ref), st)
             ELSE IF ~HasFile(v.a)
             THEN [content |-> <<ErrText("read", v.a)>>, st |-> st]
             ELSE LET st1 == [subcs |-> With(st.subcs, tmplFile, <<>>),
                              loads |-> With(st.loads, tmplFile, Count(st.loads, tmplFile) + 1)]
                      sub == ContainsSubTpl(files[tmplFile], st1)
                      st2 == [sub.st EXCEPT !.subcs = With(@, tmplFile, sub.content)]
                  IN  SubTplLoop(ms, i + 1, ReplaceAll(content, <<v>>, ref), st2)

\* ParseBlock, lines 425-432: every paired block of the body goes to the
\* block set with its includes expanded.  The result is [extcs, st]
RECURSIVE ParseBlockLoop(_, _, _, _)
ParseBlockLoop(ms, i, extcs, st) ==
    IF i > Len(ms) THEN [extcs |-> extcs, st |-> st]
    ELSE LET sub == ContainsSubTpl(ms[i].inner, st)
         IN  ParseBlockLoop(ms, i + 1, With(extcs, ms[i].name, sub.content), sub.st)

ParseBlock(content, extcs, st) == ParseBlockLoop(BlockMatches(content, 1), 1, extcs, st)

\* a self-closing Block of the layout is removed like one of the page
Filling_Dropped(extcs, name) == <<>>

\* ParseExtend, lines 441-446: what a self-closing Block is replaced by
Filling(extcs, name) == IF name \in DOMAIN extcs THEN extcs[name] ELSE <<>>

\* ParseExtend, lines 440-447: a self-closing Block is replaced by the body
\* the block set holds for its name, or by nothing
RECURSIVE FillPlaceholders(_, _, _)
FillPlaceholders(s, i, extcs) ==
    IF i > Len(s) THEN <<>>
    ELSE (IF s[i].t # "rpl" THEN <<s[i]>> ELSE Filling(extcs, s[i].a))
         \o FillPlaceholders(s, i + 1, extcs)

\* fmt.Sprintf(`.%v`, idx) of the 8-bit occurrence counter
Suffix(idx) == "." \o ToString(idx)

\* the marker is looked for in the layout's body and replaced by the
\* descendant's body
Splice_IntoAncestor(body, inner) == ReplaceFirst(inner, <<Super>>, body)

\* ParseExtend, line 480: the first marker of the descendant's body is
\* replaced by the body the layout has for the block
Splice(body, inner) == ReplaceFirst(body, <<Super>>, inner)

\* ParseExtend, lines 455-500: one paired block of the loaded layout.  x is
\* [content, extcs, st, rec, sup]
ExtendBlock(x, v, hasParent, passObject) ==
    IF v.name \notin DOMAIN x.extcs
    THEN IF hasParent THEN x
         ELSE [x EXCEPT !.content = ReplaceFirst(@, v.matched, v.inner)]
    ELSE LET repeated == v.name \in DOMAIN x.rec
             idx == IF repeated THEN (x.rec[v.name] + 1) % 256 ELSE 0
             suffix == IF repeated THEN Suffix(idx) ELSE ""
             rec1 == With(x.rec, v.name, idx)
             seen == v.name \in DOMAIN x.sup
             body == IF seen THEN x.sup[v.name] ELSE x.extcs[v.name]
             hasSuper == seen \/ Contains(body, <<Super>>)
             sup1 == IF ~seen /\ hasSuper THEN With(x.sup, v.name, body) ELSE x.sup
             inner == IF hasSuper THEN ContainsSubTpl(v.inner, x.st)
                      ELSE [content |-> v.inner, st |-> x.st]
             val == IF hasSuper THEN Splice(body, inner.content) ELSE body
             extcs1 == IF hasSuper /\ suffix = "" THEN With(x.extcs, v.name, val) ELSE x.extcs
             extcs2 == IF suffix # "" THEN With(extcs1, v.name \o suffix, val) ELSE extcs1
             rec2 == IF suffix # "" THEN With(rec1, v.name \o suffix, 0) ELSE rec1
             new == IF hasParent THEN <<Blk(v.name)>> \o val \o <<EndBlk>>
                    ELSE <<TplBlock(v.name \o suffix, passObject)>>
         IN  [content |-> ReplaceFirst(x.content, v.matched, new),
              extcs |-> extcs2, st |-> inner.st, rec |-> rec2, sup |-> sup1]

RECURSIVE ExtendBlocks(_, _, _, _, _)
ExtendBlocks(x, ms, i, hasParent, passObject) ==
    IF i > Len(ms) THEN x
    ELSE ExtendBlocks(ExtendBlock(x, ms[i], hasParent, passObject), ms, i + 1,
                      hasParent, passObject)

\* every collected block is kept
Kept_All(extcs, rec) == extcs

\* ParseExtend, lines 501-506: only the names the layout holds as paired
\* blocks stay in the block set
Kept(extcs, rec) == [k \in DOMAIN extcs \cap DOMAIN rec |-> extcs[k]]

\* ParseExtend, lines 434-508.  The result is [content, m, extcs, st]: the
\* layout with the blocks bound, its own Extend directive, and the block
\* set cut down to the names the layout holds as paired blocks
ParseExtend(content, extcs, pass, st) ==
    LET m == ExtendMatch(content, 1)
        passObject == IF pass = "" THEN "." ELSE pass
        filled == FillPlaceholders(content, 1, extcs)
        x == ExtendBlocks([content |-> filled, extcs |-> extcs, st |-> st,
                           rec |-> [k \in {} |-> 0], sup |-> [k \in {} |-> <<>>]],
                          BlockMatches(filled, 1), 1, m # <<>>, passObject)
    IN  [content |-> x.content, m |-> m, st |-> x.st,
         extcs |-> Kept(x.extcs, x.rec)]

\* the callback is called for every occurrence
Memoized_Never(cl, key) == FALSE

\* ContainsFunctionResult, line 547: the key has a clip
Memoized(cl, key) == key \in DOMAIN cl.clips

\* a directive without a callback is left in the text
Result_KeepsDirective(v) == IF v.a \in funcs THEN <<Clip(v.a, v.b)>> ELSE <<v>>

\* ContainsFunctionResult, lines 548-552: the string of the callback, or
\* the empty string when the context has no callback of that signature
Result(v) == IF v.a \in funcs THEN <<Clip(v.a, v.b)>> ELSE <<>>

\* ContainsFunctionResult, lines 540-558.  cl is [clips: the memoized
\* results of this parse, invoked: how often each callback key was called];
\* the result is [content, cl]
RECURSIVE FunctionLoop(_, _, _, _)
FunctionLoop(ms, i, content, cl) ==
    IF i > Len(ms) THEN [content |-> content, cl |-> cl]
    ELSE LET v == ms[i]
             key == v.a \o ":" \o v.b
             cl1 == IF Memoized(cl, key) THEN cl
                    ELSE IF v.a \in funcs
                    THEN [clips |-> With(cl.clips, key, Result(v)),
                          invoked |-> With(cl.invoked, key, Count(cl.invoked, key) + 1)]
                    ELSE [cl EXCEPT !.clips = With(@, key, Result(v))]
         IN  FunctionLoop(ms, i + 1, ReplaceAll(content, <<v>>, cl1.clips[key]), cl1)

ContainsFunctionResult(content, cl) == FunctionLoop(Matches(content, "fn"), 1, content, cl)

\* html/template Parse: a directive of the engine that is still in the
\* text is an action the evaluator does not know
Evaluable(s) == \A i \in 1..Len(s) : s[i].t \in {"txt", "clip", "err", "tplf", "tplb"}

(***************************************************************************)
(* The documents of the bounded input: a page "c", the layouts "l" and     *)
(* "g", the partials "p" and "q".                                          *)
(***************************************************************************)
DocNames == {"c", "l", "g", "p", "q"}
TopNames == {"c", "p"}              \* the logical names that are parsed
FuncNames == {"f", "h"}             \* the Function names the documents use

\* the file does not exist
Missing == <<[t |-> "missing", a |-> "", b |-> ""]>>

PageDocs == {
    <<Ext_("l"), Blk("x"), Txt("hello"), EndBlk>>,
    <<Ext_("l"), Blk("x"), Txt("hi "), Super, Txt("!"), EndBlk>>,
    <<Ext_("l"), Blk("x"), Txt("hi "), SuperSelfClosed, Txt("!"), EndBlk>>,
    <<Ext_("l"), Blk("x"), Txt("hello"), Inc("p"), EndBlk,
      Blk("o"), Txt("orphan"), Fn("f", "a"), EndBlk>>,
    <<Txt(" "), Ext_("l"), Blk("x"), Fn("f", "a"), Fn("h", ""), EndBlk, Ext_("g")>>,
    <<Txt("top"), Ext_("l"), Blk("x"), Txt("hello"), EndBlk>>,
    <<Inc("p"), Fn("f", "a"), Inc("q"), Inc("p"), Fn("f", "a"), Fn("f", "b")>>,
    <<Ext_("c"), Blk("x"), Txt("hello"), EndBlk>> }

LayoutDocs == {
    <<Txt("<div>"), Rpl("x"), Txt("</div>")>>,
    <<Txt("<div>"), Blk("x"), Txt("again"), EndBlk, Txt("</div>")>>,
    <<Blk("x"), Txt("again"), Inc("p"), EndBlk, Fn("f", "a"), Inc("p")>>,
    <<Ext_("g"), Blk("x"), Txt("mid"), EndBlk>>,
    <<Blk("x"), Txt("again"), EndBlk, Ext_("g")>>,
    <<Ext_("c"), Blk("x"), Txt("again"), EndBlk>>,
    <<Ext_("g"), Txt("mid")>>,
    <<Blk("x"), Txt("one"), EndBlk, Blk("x"), Txt("two"), EndBlk>>,
    Missing }

RootDocs == {
    <<Txt("<html>"), Blk("x"), Txt("root"), EndBlk, Txt("</html>")>>,
    Missing }

PartialDocs == {
    <<Txt("part")>>,
    <<Txt("part"), Inc("p"), Fn("f", "a")>>,
    <<Inc("q"), Fn("h", "")>>,
    Missing }

OtherDocs == {
    <<Inc("p"), Txt("other")>>,
    <<Fn("f", "a"), Txt("other")>> }

\* the directory that holds the documents d gives to the names
Dir(d) == [p \in {TmplPath(n) : n \in {x \in DocNames : d[x] # Missing}} |-> d[p.file]]

Dirs == {Dir([c |-> dc, l |-> dl, g |-> dg, p |-> dp, q |-> dq]) :
            dc \in PageDocs, dl \in LayoutDocs, dg \in RootDocs,
            dp \in PartialDocs, dq \in OtherDocs}

NoPool == [subcs |-> [k \in {} |-> <<>>], loads |-> [k \in {} |-> 0]]
NoClips == [clips |-> [k \in {} |-> <<>>], invoked |-> [k \in {} |-> 0]]
NoDefs == [k \in {} |-> <<>>]

\* the locals of parse before the first line
StartRun == [pc |-> "start", name |-> None, content |-> <<>>, m |-> <<>>, i |-> 0,
             st |-> NoPool, extcs |-> NoDefs, cl |-> NoClips, parents |-> <<>>,
             main |-> <<>>, subdefs |-> [k \in {} |-> <<>>], blockdefs |-> NoDefs,
             err |-> NoErr, out |-> <<>>]

\* a fresh engine, a directory of documents and a function registry
DocInit ==
    /\ NewEngine
    /\ SideIdle
    /\ lp = NoLoop
    /\ files \in Dirs
    /\ funcs \in SUBSET FuncNames
    /\ rs = StartRun

\* rplTagRegex.ReplaceAllString(content, ``), line 325
StripPlaceholders(s) == SelectSeq(s, LAMBDA v : v.t # "rpl")

\* the loop goes on as long as the loaded document has an Extend directive
MoreHops_Uncapped(i, m) == m # <<>>

\* parse, line 326: i < 10 && len(m) > 0
MoreHops(i, m) == i < MaxHops /\ m # <<>>

\* parse, lines 316-325, on an empty cache
ParseMain(n) ==
    /\ rs.pc = "start"
    /\ rs' = IF ~HasFile(n)
             THEN [rs EXCEPT !.name = n, !.err = LoadErr(TmplPath(n)),
                             !.main = <<ErrText("load", n)>>, !.pc = "parsed"]
             ELSE LET content == files[TmplPath(n)]
                      m == ExtendMatch(content, 1)
                  IN  [rs EXCEPT !.name = n, !.m = m,
                                 !.content = StripPlaceholders(content),
                                 !.pc = IF MoreHops(0, m) THEN "hop" ELSE "expand"]
    /\ UNCHANGED <<files, funcs>>
    /\ UNCHANGED <<enginevars, confvars, lp, sidevars>>

\* parse, lines 326-347: one turn of the loop over the Extend chain
Hop ==
    /\ rs.pc = "hop"
    /\ MoreHops(rs.i, rs.m)
    /\ LET pb == ParseBlock(rs.content, rs.extcs, rs.st)
           extFile == rs.m[1].a
       IN  rs' = IF ~HasFile(extFile)
                 THEN [rs EXCEPT !.extcs = pb.extcs, !.st = pb.st,
                                 !.err = LoadErr(TmplPath(extFile)),
                                 !.main = <<ErrText("load", extFile)>>, !.pc = "parsed"]
                 ELSE LET pe == ParseExtend(files[TmplPath(extFile)], pb.extcs,
                                            rs.m[1].b, pb.st)
                      IN  [rs EXCEPT !.content = pe.content, !.m = pe.m,
                                     !.extcs = pe.extcs, !.st = pe.st,
                                     !.i = @ + 1, !.parents = Append(@, extFile),
                                     !.pc = IF MoreHops(rs.i + 1, pe.m)
                                            THEN "hop" ELSE "expand"]
    /\ UNCHANGED <<files, funcs>>
    /\ UNCHANGED <<enginevars, confvars, lp, sidevars>>

\* parse, lines 348-356: includes, function clips, then the evaluator's Parse
Expand ==
    /\ rs.pc = "expand"
    /\ LET sub == ContainsSubTpl(rs.content, rs.st)
           fr == ContainsFunctionResult(sub.content, rs.cl)
       IN  rs' = IF ~Evaluable(fr.content)
                 THEN [rs EXCEPT !.content = fr.content, !.st = sub.st, !.cl = fr.cl,
                                 !.err = ParseErr(TmplPath(rs.name)),
                                 !.main = <<ErrText("parse", rs.name)>>, !.pc = "parsed"]
                 ELSE [rs EXCEPT !.content = fr.content, !.st = sub.st, !.cl = fr.cl,
                                 !.main = fr.content, !.pc = "define"]
    /\ UNCHANGED <<files, funcs>>
    /\ UNCHANGED <<enginevars, confvars, lp, sidevars>>

\* the error of Parse on the body of a block
BlockParseErr(n) == [kind |-> "blockparse", block |-> n]

\* parse, lines 357-388: one sub-template of the pool on an empty cache.
\* d is [subdefs, blockdefs, cl, err]
DefineSub(d, name) ==
    IF d.err # NoErr THEN d
    ELSE IF name = TmplPath(rs.name)
    THEN [d EXCEPT !.subdefs = With(@, name, rs.main)]
    ELSE LET fr == ContainsFunctionResult(rs.st.subcs[name], d.cl)
         IN  IF Evaluable(fr.content)
             THEN [d EXCEPT !.subdefs = With(@, name, fr.content), !.cl = fr.cl]
             ELSE [d EXCEPT !.subdefs = With(@, name, <<ErrText("file", name.file)>>),
                            !.cl = fr.cl, !.err = SubParseErr(name)]

\* parse, lines 389-404: one block of the block set
DefineBlock(d, name) ==
    IF d.err # NoErr THEN d
    ELSE LET fr == ContainsFunctionResult(rs.extcs[name], d.cl)
         IN  IF Evaluable(fr.content)
             THEN [d EXCEPT !.blockdefs = With(@, name, fr.content), !.cl = fr.cl]
             ELSE [d EXCEPT !.blockdefs = With(@, name, <<ErrText("block", name)>>),
                            !.cl = fr.cl, !.err = BlockParseErr(name)]

RECURSIVE DefineSubs(_, _, _)
DefineSubs(d, q, i) == IF i > Len(q) THEN d ELSE DefineSubs(DefineSub(d, q[i]), q, i + 1)

RECURSIVE DefineBlocks(_, _, _)
DefineBlocks(d, q, i) == IF i > Len(q) THEN d ELSE DefineBlocks(DefineBlock(d, q[i]), q, i + 1)

\* parse, lines 357-408: the named definitions of the pool and of the block
\* set, each map visited in one of its orders
Define ==
    /\ rs.pc = "define"
    /\ \E qs \in Orders(DOMAIN rs.st.subcs), qb \in Orders(DOMAIN rs.extcs) :
          LET d0 == [subdefs |-> rs.subdefs, blockdefs |-> rs.blockdefs,
                     cl |-> rs.cl, err |-> NoErr]
              d == DefineBlocks(DefineSubs(d0, qs, 1), qb, 1)
          IN  rs' = [rs EXCEPT !.subdefs = d.subdefs, !.blockdefs = d.blockdefs,
                               !.cl = d.cl, !.err = d.err, !.pc = "parsed"]
    /\ UNCHANGED <<files, funcs>>
    /\ UNCHANGED <<enginevars, confvars, lp, sidevars>>

\* ExecuteTemplate: the text a document evaluates to, template calls
\* followed to their definitions.  The result is [ok, out]
RECURSIVE ExecDoc(_, _, _)
ExecDoc(s, i, depth) ==
    IF i > Len(s) THEN [ok |-> TRUE, out |-> <<>>]
    ELSE LET v == s[i]
             known == IF v.t = "tplf" THEN TmplPath(v.a) \in DOMAIN rs.subdefs
                      ELSE v.a \in DOMAIN rs.blockdefs
             body == IF v.t = "tplf" THEN rs.subdefs[TmplPath(v.a)] ELSE rs.blockdefs[v.a]
             head == IF v.t \notin {"tplf", "tplb"} THEN [ok |-> TRUE, out |-> <<v>>]
                     ELSE IF depth = 0 \/ ~known THEN [ok |-> FALSE, out |-> <<>>]
                     ELSE ExecDoc(body, 1, depth - 1)
             tail == ExecDoc(s, i + 1, depth)
         IN  IF head.ok /\ tail.ok THEN [ok |-> TRUE, out |-> head.out \o tail.out]
             ELSE [ok |-> FALSE, out |-> <<>>]

\* Fetch, line 413, and execute, lines 416-423: the error of parse is
\* dropped, the tree parse returned is executed
Execute ==
    /\ rs.pc = "parsed"
    /\ LET r == ExecDoc(rs.main, 1, MaxDepth)
       IN  rs' = [rs EXCEPT !.out = IF r.ok THEN r.out ELSE <<ErrText("exec", rs.name)>>,
                            !.pc = "done"]
    /\ UNCHANGED <<files, funcs>>
    /\ UNCHANGED <<enginevars, confvars, lp, sidevars>>

DocNext ==
    \/ \E n \in TopNames : ParseMain(n)
    \/ Hop
    \/ Expand
    \/ Define
    \/ Execute

\* one top-level parse and its execution on a fresh engine, for every
\* directory of documents of the bounded input
DocSpec == DocInit /\ [][DocNext]_vars

(***************************************************************************)
(* The loop of ParseExtend over the paired blocks of the last layout, one  *)
(* turn per step, on a layout that repeats the block x.  The occurrence    *)
(* counter of the loop is a uint8, so the layouts go past 256 repeats.     *)
(***************************************************************************)
MaxRepeats == 258

\* the bodies a page gives to block x, without and with the super marker
RepeatBodies == {<<Txt("hello")>>, <<Txt("hi "), Super, Txt("!")>>}

\* ParseExtend, lines 448-454, when the block set holds the page's body
\* for x: no block of the layout has been met
StartLoop(body) ==
    [on |-> TRUE, body |-> body, n |-> 0, out |-> <<>>,
     x |-> [content |-> <<>>, extcs |-> [k \in {"x"} |-> body], st |-> NoPool,
            rec |-> [k \in {} |-> 0], sup |-> [k \in {} |-> <<>>]]]

\* the n-th paired block of the layout: {{Block "x"}}n{{/Block}}
Occurrence(n) ==
    [matched |-> <<Blk("x"), Txt(ToString(n)), EndBlk>>, name |-> "x",
     inner |-> <<Txt(ToString(n))>>]

RepeatInit ==
    /\ NewEngine
    /\ SideIdle
    /\ lp \in {StartLoop(body) : body \in RepeatBodies}
    /\ files = NoFiles
    /\ funcs = {}
    /\ rs = NoRun

\* ParseExtend, lines 455-500: one turn of the loop, on the next paired
\* block of a layout that extends nothing.  The text before the block holds
\* no paired block any more, so the turn rewrites the block where it stands
NextBlock ==
    /\ lp.on
    /\ lp.n < MaxRepeats
    /\ LET v == Occurrence(lp.n + 1)
           y == ExtendBlock([lp.x EXCEPT !.content = v.matched], v, FALSE, ".")
       IN  lp' = [lp EXCEPT !.n = @ + 1, !.out = @ \o y.content,
                            !.x = [y EXCEPT !.content = <<>>]]
    /\ UNCHANGED <<docvars, confvars, enginevars, sidevars>>

RepeatNext == NextBlock

RepeatSpec == RepeatInit /\ [][RepeatNext]_vars

(***************************************************************************)
(* The configuration of the engine and the patterns derived from it.  The  *)
(* delimiters and the tag keywords are exported fields of Standard (lines  *)
(* 96-127): a caller changes them by assignment.                           *)
(***************************************************************************)
DelimPairs == {<<"{{", "}}">>, <<"[[", "]]">>}
TagFields == {"IncludeTag", "BlockTag"}
TagWords == [IncludeTag |-> {"Include", "Inc"}, BlockTag |-> {"Block", "Blk"}]

\* the directives a document can hold: an Include directive in one of the
\* syntaxes
Texts == {[left |-> d[1], word |-> w, right |-> d[2]] : d \in DelimPairs,
                                                         w \in TagWords.IncludeTag}

\* the pattern, built from quoted delimiters and a keyword, matches the text
Finds(pattern, text) == pattern = <<QuoteMeta(text.left), text.word, QuoteMeta(text.right)>>

\* e.DelimLeft = l; e.DelimRight = r
SetDelims(l, r) ==
    /\ conf' = [conf EXCEPT !.DelimLeft = l, !.DelimRight = r]
    /\ UNCHANGED <<regex, scanned, lp, docvars, enginevars, sidevars>>

\* e.IncludeTag = w, e.BlockTag = w
SetTag(f, w) ==
    /\ conf' = [conf EXCEPT ![f] = w]
    /\ UNCHANGED <<regex, scanned, lp, docvars, enginevars, sidevars>>

\* InitRegexp, lines 231-256
InitRegexp ==
    /\ regex' = Patterns(conf)
    /\ UNCHANGED <<conf, scanned, lp, docvars, enginevars, sidevars>>

\* ContainsSubTpl, line 511: a parse scans a document with the patterns the
\* engine holds
Scan(text) ==
    /\ scanned' = [kind |-> "scan", regex |-> regex, conf |-> conf, text |-> text,
                   found |-> Finds(regex.incTagRegex, text)]
    /\ UNCHANGED <<conf, regex, lp, docvars, enginevars, sidevars>>

ConfNext ==
    \/ \E d \in DelimPairs : SetDelims(d[1], d[2])
    \/ \E f \in TagFields, w \in TagWords.IncludeTag \cup TagWords.BlockTag :
          w \in TagWords[f] /\ SetTag(f, w)
    \/ InitRegexp
    \/ EngineInit
    \/ \E text \in Texts : Scan(text)

\* a fresh engine whose configuration is changed between parses
ConfSpec == Init /\ [][ConfNext]_vars

(***************************************************************************)
(* Render on several engine instances of one process.  Standard.Render and *)
(* Pongo2.Render take the mutex of their own engine, guarded by the one    *)
(* flag `webx:render.locked` of the request context.                       *)
(***************************************************************************)
MaxNest == 3

\* the innermost Render call of context c
Top(c) == frames[c][Len(frames[c])]

\* Standard.Render, lines 259-268, and Pongo2.Render, lines 202-211, on
\* engine e: called by a request that is in no Render call, or by the tree
\* a Render call of the same context is executing
RenderOn(c, e) ==
    /\ Len(frames[c]) < MaxNest
    /\ frames[c] # <<>> => Top(c).pc = "execute"
    /\ IF cflag[c]
       THEN /\ frames' = [frames EXCEPT ![c] = Append(@, [engine |-> e, deferred |-> FALSE,
                                                          pc |-> "parse"])]
            /\ UNCHANGED <<elock, cflag>>
       ELSE /\ elock[e] = None
            /\ elock' = [elock EXCEPT ![e] = c]
            /\ cflag' = [cflag EXCEPT ![c] = TRUE]
            /\ frames' = [frames EXCEPT ![c] = Append(@, [engine |-> e, deferred |-> TRUE,
                                                          pc |-> "parse"])]
    /\ UNCHANGED <<docvars, confvars, lp, enginevars, besideLock>>

\* parse returns to Render (standard.go:269, pongo2.go:211)
ParseReturns(c) ==
    /\ frames[c] # <<>> /\ Top(c).pc = "parse"
    /\ frames' = [frames EXCEPT ![c][Len(frames[c])].pc = "execute"]
    /\ UNCHANGED <<elock, cflag, docvars, confvars, lp, enginevars, besideLock>>

\* Render returns: the deferred function, when one was registered, unlocks
\* the engine and deletes the flag (standard.go:263-266, pongo2.go:206-209)
RenderReturns(c) ==
    /\ frames[c] # <<>> /\ Top(c).pc = "execute"
    /\ frames' = [frames EXCEPT ![c] = SubSeq(@, 1, Len(@) - 1)]
    /\ IF Top(c).deferred
       THEN /\ elock' = [elock EXCEPT ![Top(c).engine] = None]
            /\ cflag' = [cflag EXCEPT ![c] = FALSE]
       ELSE UNCHANGED <<elock, cflag>>
    /\ UNCHANGED <<docvars, confvars, lp, enginevars, besideLock>>

LockNext ==
    \/ \E c \in Contexts, e \in Engines : RenderOn(c, e)
    \/ \E c \in Contexts : ParseReturns(c)
    \/ \E c \in Contexts : RenderReturns(c)

\* two request contexts render on two engine instances
LockSpec == Init /\ [][LockNext]_vars

(***************************************************************************)
(* The function map of a parse, both drivers.                              *)
(***************************************************************************)
\* a provider either hands out one map on every call or a new one each time
Providers == {"same", "fresh"}

\* the names c.Funcs() of a request may carry, bound to that request
RequestFuncs == SUBSET {"T", "user"}

\* SetFuncMap, standard.go:165-167 and pongo2.go:198-200
SetFuncMap(e, k) ==
    /\ provider' = [provider EXCEPT ![e] = k]
    /\ emap' = [emap EXCEPT ![e] = EngineFuncs]
    /\ UNCHANGED binding
    /\ UNCHANGED <<docvars, confvars, lp, enginevars, besideFn>>

\* self.getFuncs(): the map itself, no copy
getFuncs(e) == IF provider[e] = "same" THEN emap[e] ELSE EngineFuncs

\* m[k] = v for every k of ks
Overlay(m, ks, v) == [n \in EntryNames |-> IF n \in ks THEN v ELSE m[n]]

\* Standard.parse, lines 281-290, and setFunc (294, 313): the map of the
\* provider converted to FuncMap, the functions of the context written
\* into it, then hasBlock and hasAnyBlock
StandardFuncMap(e, c, cf) ==
    Overlay(Overlay(IF provider[e] = None THEN NoEntries ELSE getFuncs(e), cf, c),
            {"hasBlock"}, "tree")

\* Pongo2.parse, pongo2.go:230-264, for data that is no map: the map of the
\* provider converted to Context, the data written under `value`, then the
\* functions of the context
Pongo2Context(e, c, cf) ==
    Overlay(Overlay(IF provider[e] = None THEN NoEntries ELSE getFuncs(e), {"value"}, c),
            cf, c)

\* the map a parse of request c on engine e binds, and what it leaves in
\* the map of the provider
ParseFuncs(c, e, cf) ==
    LET m == IF e = "standard" THEN StandardFuncMap(e, c, cf) ELSE Pongo2Context(e, c, cf)
    IN  /\ binding' = [ctx |-> c, engine |-> e, supplied |-> cf, funcs |-> m]
        /\ emap' = IF provider[e] = "same" THEN [emap EXCEPT ![e] = m] ELSE emap
        /\ UNCHANGED provider
        /\ UNCHANGED <<docvars, confvars, lp, enginevars, besideFn>>

\* Pongo2.parse, pongo2.go:219-228: the template cannot be loaded; the
\* error text is returned with an empty Context
Pongo2LoadFails(c, cf) ==
    /\ binding' = [ctx |-> c, engine |-> "pongo2", supplied |-> cf, funcs |-> NoEntries]
    /\ UNCHANGED <<provider, emap>>
    /\ UNCHANGED <<docvars, confvars, lp, enginevars, besideFn>>

FuncsNext ==
    \/ \E e \in Engines, k \in Providers : SetFuncMap(e, k)
    \/ \E c \in Contexts, e \in Engines, cf \in RequestFuncs : ParseFuncs(c, e, cf)
    \/ \E c \in Contexts, cf \in RequestFuncs : Pongo2LoadFails(c, cf)

\* requests with their own functions parse on engines with a provider
FuncsSpec == Init /\ [][FuncsNext]_vars

(***************************************************************************)
(* The manager of an engine, both drivers.                                 *)
(***************************************************************************)
\* SetManager, standard.go:208-213 and pongo2.go:180-185: the manager the
\* engine holds is closed, whichever it is, and the new one takes its place
SetManager(e, m) ==
    /\ closed' = IF emgr[e] # None THEN [closed EXCEPT ![emgr[e]] = TRUE] ELSE closed
    /\ emgr' = [emgr EXCEPT ![e] = m]
    /\ UNCHANGED watches
    /\ UNCHANGED <<docvars, confvars, lp, enginevars, besideMgr>>

\* Init, standard.go:202-205 and pongo2.go:166-177: the directory of the
\* engine and its callback are registered with the manager of the engine
InitOn(e) ==
    /\ emgr[e] # None
    /\ watches' = watches \cup {<<emgr[e], e>>}
    /\ UNCHANGED <<emgr, closed>>
    /\ UNCHANGED <<docvars, confvars, lp, enginevars, besideMgr>>

\* Close, standard.go:624-634 and pongo2.go:315-324: on the default manager
\* the watch directory and the callback of this engine are cancelled; any
\* other manager is closed
CloseOn(e) ==
    /\ emgr[e] # None
    /\ IF emgr[e] = "Default"
       THEN /\ watches' = watches \ {<<"Default", e>>}
            /\ UNCHANGED closed
       ELSE /\ closed' = [closed EXCEPT ![emgr[e]] = TRUE]
            /\ UNCHANGED watches
    /\ UNCHANGED emgr
    /\ UNCHANGED <<docvars, confvars, lp, enginevars, besideMgr>>

MgrNext ==
    \/ \E e \in Engines, m \in Managers \cup {None} : SetManager(e, m)
    \/ \E e \in Engines : InitOn(e)
    \/ \E e \in Engines : CloseOn(e)

\* engines are initialised, closed and given other managers
MgrSpec == Init /\ [][MgrNext]_vars

(***************************************************************************)
(* The cache of the pongo2 driver and its file events.                     *)
(***************************************************************************)
MaxFileEvents == 2

\* the names the watcher reports: the templates, and a file of another kind
EventNames == [stem : Stems, ext : {".html"}] \cup {[stem |-> "page", ext |-> ".txt"]}

\* the files the compilation of a template reads: the file itself and the
\* files it extends or includes (the set loads them through the loader,
\* pongo2.go:89-98)
ReadBy(k) ==
    IF k = "page" THEN {"page", "part", "layout"}
    ELSE IF k = "home" THEN {"home", "base"}
    ELSE {k}

\* strings.HasSuffix(key, `layout`), pongo2.go:155
EndsInLayout(key) == key = "layout"

\* the file changes on disk: it is gone after delete and rename, there
\* with new content after modify
Touched(f, event) ==
    IF event = "create" THEN f
    ELSE [exists |-> event = "modify", ver |-> f.ver + 1]

\* the callback of Init, pongo2.go:153-161, on the cache
Invalidate(t, name) ==
    LET key == name.stem
    IN  IF EndsInLayout(key) THEN <<>>
        ELSE IF key \in DOMAIN t THEN [k \in DOMAIN t \ {key} |-> t[k]]
        ELSE t

\* a file event and the callback of Init, pongo2.go:146-165
PongoFileEvent(name, typ, event) ==
    /\ pfs[name.stem].ver < MaxFileEvents
    /\ pfs' = IF typ = "file" /\ name.ext = ".html"
              THEN [pfs EXCEPT ![name.stem] = Touched(@, event)]
              ELSE pfs
    /\ templates' = IF event = "create" \/ typ = "dir" \/ name.ext # ".html"
                    THEN templates
                    ELSE Invalidate(templates, name)
    /\ UNCHANGED <<docvars, confvars, lp, enginevars, besidePongo>>

\* Pongo2.parse, pongo2.go:215-229, of the logical name k: a hit, or the
\* template is loaded with what it extends and includes and is cached
\* unless a file cannot be read
PongoParse(k) ==
    /\ templates' = IF k \in DOMAIN templates \/ \E s \in ReadBy(k) : ~pfs[s].exists
                    THEN templates
                    ELSE [j \in DOMAIN templates \cup {k} |->
                            IF j = k THEN [s \in ReadBy(k) |-> pfs[s].ver] ELSE templates[j]]
    /\ UNCHANGED pfs
    /\ UNCHANGED <<docvars, confvars, lp, enginevars, besidePongo>>

\* Pongo2.ClearCache, pongo2.go:308-313
PongoClearCache ==
    /\ templates' = <<>>
    /\ UNCHANGED pfs
    /\ UNCHANGED <<docvars, confvars, lp, enginevars, besidePongo>>

PongoNext ==
    \/ \E name \in EventNames, typ \in {"file", "dir"},
          event \in {"create", "delete", "modify", "rename"} : PongoFileEvent(name, typ, event)
    \/ \E k \in Stems : PongoParse(k)
    \/ PongoClearCache

\* templates are rendered while the files of the directory change
PongoSpec == Init /\ [][PongoNext]_vars

(***************************************************************************)
(* The proxy balancer, proxy.go.  A section under b.mutex is one step; the *)
(* statements outside it are steps of their own.                           *)
(***************************************************************************)
MaxOps == 4

\* the goroutine can start a call
CanCall(p) == pt[p].pc \in {"idle", "done"} /\ bops < MaxOps

\* AddTarget, proxy.go:166-170: the list is searched for the name before
\* the mutex is taken
AddTargetScan(p, name) ==
    /\ CanCall(p)
    /\ bops' = bops + 1
    /\ pt' = [pt EXCEPT ![p] =
                 IF \E i \in 1..Len(targets) : targets[i] = name
                 THEN [IdleProc EXCEPT !.op = "AddTarget", !.name = name, !.pc = "done",
                                       !.ret = FALSE]
                 ELSE [IdleProc EXCEPT !.op = "AddTarget", !.name = name, !.pc = "append"]]
    /\ UNCHANGED <<targets, bi>>
    /\ UNCHANGED <<docvars, confvars, lp, enginevars, besideProxy>>

\* AddTarget, proxy.go:171-180: under the mutex the target is appended
AddTargetAppend(p) ==
    /\ pt[p].pc = "append"
    /\ targets' = Append(targets, pt[p].name)
    /\ pt' = [pt EXCEPT ![p].pc = "done", ![p].ret = TRUE]
    /\ UNCHANGED <<bi, bops>>
    /\ UNCHANGED <<docvars, confvars, lp, enginevars, besideProxy>>

\* the list without its i-th element
RemoveAt(s, i) == SubSeq(s, 1, i - 1) \o SubSeq(s, i + 1, Len(s))

\* RemoveTarget, proxy.go:184-194, all under the mutex: the first target of
\* that name is cut out of the list
RemoveTarget(p, name) ==
    /\ CanCall(p)
    /\ bops' = bops + 1
    /\ LET hits == {i \in 1..Len(targets) : targets[i] = name}
       IN  IF hits = {}
           THEN /\ pt' = [pt EXCEPT ![p] = [IdleProc EXCEPT !.op = "RemoveTarget",
                                                            !.name = name, !.pc = "done",
                                                            !.ret = FALSE]]
                /\ UNCHANGED targets
           ELSE /\ pt' = [pt EXCEPT ![p] = [IdleProc EXCEPT !.op = "RemoveTarget",
                                                            !.name = name, !.pc = "done",
                                                            !.ret = TRUE]]
                /\ targets' = RemoveAt(targets, CHOOSE i \in hits : \A j \in hits : i <= j)
    /\ UNCHANGED bi
    /\ UNCHANGED <<docvars, confvars, lp, enginevars, besideProxy>>

\* roundRobinBalancer.Next, proxy.go:207: b.i = b.i % uint32(len(b.targets));
\* the division by zero on an empty list is a run-time panic
NextMod(p) ==
    /\ CanCall(p)
    /\ bops' = bops + 1
    /\ IF Len(targets) = 0
       THEN /\ pt' = [pt EXCEPT ![p] = [IdleProc EXCEPT !.op = "Next", !.pc = "panic"]]
            /\ UNCHANGED bi
       ELSE /\ pt' = [pt EXCEPT ![p] = [IdleProc EXCEPT !.op = "Next", !.pc = "index"]]
            /\ bi' = bi % Len(targets)
    /\ UNCHANGED targets
    /\ UNCHANGED <<docvars, confvars, lp, enginevars, besideProxy>>

\* roundRobinBalancer.Next, proxy.go:208: t := b.targets[b.i]; an index
\* outside the list is a run-time panic
NextIndex(p) ==
    /\ pt[p].pc = "index"
    /\ pt' = [pt EXCEPT ![p] =
                 IF bi < Len(targets)
                 THEN [@ EXCEPT !.pc = "inc", !.got = targets[bi + 1], !.k = bi,
                                !.n = Len(targets)]
                 ELSE [@ EXCEPT !.pc = "panic", !.k = bi, !.n = Len(targets)]]
    /\ UNCHANGED <<targets, bi, bops>>
    /\ UNCHANGED <<docvars, confvars, lp, enginevars, besideProxy>>

\* roundRobinBalancer.Next, proxy.go:209-210: atomic.AddUint32(&b.i, 1) and
\* the return of t; every call reduces b.i below the length of the list
\* before it adds one, so b.i stays far below the width of uint32
NextInc(p) ==
    /\ pt[p].pc = "inc"
    /\ bi' = bi + 1
    /\ pt' = [pt EXCEPT ![p].pc = "done"]
    /\ UNCHANGED <<targets, bops>>
    /\ UNCHANGED <<docvars, confvars, lp, enginevars, besideProxy>>

ProxyNext ==
    \/ \E p \in Procs, name \in TargetNames : AddTargetScan(p, name)
    \/ \E p \in Procs : AddTargetAppend(p)
    \/ \E p \in Procs, name \in TargetNames : RemoveTarget(p, name)
    \/ \E p \in Procs : NextMod(p)
    \/ \E p \in Procs : NextIndex(p)
    \/ \E p \in Procs : NextInc(p)

\* goroutines add, remove and pick targets concurrently
ProxySpec == Init /\ [][ProxyNext]_vars

(***************************************************************************)
(* Vocabulary of the properties.                                           *)
(***************************************************************************)
\* request r is between the cache lookup of parse and the return of parse
InParse(r) == th[r].pc \in {"read", "extend", "compile", "store", "bind"}

\* this step is the first step of a new Render or Fetch call of r
CallStart(r) ==
    \/ th[r].pc \in {"idle", "done"} /\ th'[r].pc \notin {"idle", "done"}
    \/ th[r].outer = NoOuter /\ th'[r].outer # NoOuter

\* this step is a step of request r
StepOf(r) == th[r].pc # th'[r].pc \/ th[r].outer # th'[r].outer

\* a tree without the function map bound to it
Unbound(t) == IF t = NoTree THEN t ELSE [t EXCEPT !.funcs = None]

\* the cache map and its entries, function bindings of the trees aside
Entries(c) == [k \in DOMAIN c |-> [c[k] EXCEPT !.tpl0 = Unbound(@), !.tpl1 = Unbound(@)]]

\* C1: at most one request at a time is inside the parse-or-cache-lookup
\* path of the engine, for every interleaving of Render and Fetch calls.
C1_OneRequestInParse ==
    \A r1, r2 \in Req : r1 # r2 => ~(InParse(r1) /\ InParse(r2))

\* C2: every mutation of the cache map (the inserts of parse, the wholesale
\* replacement by ClearCache, Close and the watch callback) is made by a
\* request that holds the engine lock.
C2_CacheMutatedUnderLock ==
    [][Entries(cache') # Entries(cache) => \E r \in Req : StepOf(r) /\ mutex = r]_vars

\* C3: once a modify, delete or rename event for a file has been handled, no
\* call that starts later returns a cached tree compiled from the content
\* the file had before that change.
C3_NoStaleTreeAfterEvent ==
    [][\A r \in Req : (CallStart(r) /\ th'[r].hit) =>
          \A p \in DOMAIN th'[r].tmpl.vers : th'[r].tmpl.vers[p] >= handled[p]]_vars

\* C4: a call for a name whose key holds a standalone tree returns that
\* tree, reads nothing from the content source and resolves nothing; and a
\* stored standalone tree leaves the cache only by ClearCache, Close or an
\* invalidating file event.
C4_CacheHitSkipsRecomputation ==
    [][/\ \A r \in Req : CallStart(r) /\ HasStandalone(cache, th'[r].key) =>
              /\ Unbound(th'[r].tmpl) = Unbound(cache[th'[r].key].tpl0)
              /\ th'[r].reads = 0
              /\ th'[r].pc = "parsed"
       /\ \A r \in Req : th'[r].hit => th'[r].reads = 0 /\ th'[r].pc \in {"parsed", "done"}
       /\ \A k \in DOMAIN cache : HasStandalone(cache, k) /\ ~HasStandalone(cache', k) =>
              \/ ClearCache
              \/ Close
              \/ \E n \in WatchedNames, e \in {"delete", "modify", "rename"} :
                    FileEvent(n, "file", e)]_vars

\* a second call was answered from the cache with the stored page
C4_Witness ==
    \E r \in Req : th[r].pc = "done" /\ th[r].hit /\ th[r].out.kind = "page"
                   /\ th[r].out.text = NoErr /\ calls = 2

C6_ClearCacheEmpties ==
    [][/\ (ClearCache \/ Close) => cache' = EmptyCache
       /\ \A r \in Req : CallStart(r) /\ cache = EmptyCache =>
              ~th'[r].hit /\ th'[r].reads >= 1]_vars

\* a call was answered from the cache, so the map held a standalone tree,
\* and with no file event the map is empty: ClearCache or Close emptied it
C6_Witness ==
    /\ changes = 0
    /\ cache = EmptyCache
    /\ \E r \in Req : th[r].pc = "done" /\ th[r].hit

\* C7: Fetch of a name whose top-level file cannot be read returns the text
\* of the load error, which names the file, and does not panic.
C7_FetchFailSoft ==
    \A r \in Req :
        (th[r].pc = "done" /\ th[r].op = "Fetch" /\ th[r].perr = LoadErr(th[r].key)) =>
            /\ ~th[r].panicked
            /\ th[r].out = Page(DiagTree(th[r].key, LoadErr(th[r].key), r))

\* C8: when compiling fails with a load error or a parse error, the entry
\* point, Render as well as Fetch, emits the diagnostic text.
C8_DiagnosticEmitted ==
    \A r \in Req :
        (th[r].pc = "done" /\ th[r].perr.kind \in {"load", "parse"}
            /\ th[r].name \notin DelimNames) =>
            th[r].out = Page(DiagTree(th[r].key, th[r].perr, r))

\* C9 as claimed: after a parse of a key ended in an error, a later call of
\* that key reads nothing from the source until a file event or ClearCache.
C9_ErrorNotRetried ==
    \A r \in Req : th[r].afterFail => th[r].reads = 0

\* C9 as amended: a parse that ends in an error stores no standalone tree
\* for its key, and a later call of that key that finds no standalone tree
\* reads the source again, with no file event or ClearCache in between.
C9_ErrorNotCached ==
    [][\A r \in Req :
          /\ (th[r].perr = NoErr /\ th'[r].perr # NoErr) =>
                /\ HasStandalone(cache', th'[r].key) <=> HasStandalone(cache, th'[r].key)
                /\ HasStandalone(cache, th'[r].key) =>
                       Unbound(cache'[th'[r].key].tpl0) = Unbound(cache[th'[r].key].tpl0)
          /\ (CallStart(r) /\ th'[r].key \in failed /\ ~HasStandalone(cache, th'[r].key)) =>
                th'[r].reads >= 1]_vars

\* a call of a key whose last parse failed read the source again
C9_Witness ==
    \E r \in Req : th[r].pc = "done" /\ th[r].afterFail /\ th[r].reads >= 1
                   /\ th[r].perr.kind = "load"

\* C10: when a Render call that acquired the engine lock has returned, the
\* lock is no longer held for that request and the guard flag is removed
\* from its context, whichever way the call ended.
C10_RenderReleases ==
    \A r \in Req : th[r].pc \in {"idle", "done"} => mutex # r /\ ~flag[r]

\* two Render calls that took the lock have returned, one with the error of
\* parse and one with an error of the execution
C10_Witness ==
    \E r1, r2 \in Req :
        /\ th[r1].pc = "done" /\ th[r1].op = "Render" /\ th[r1].locked
        /\ th[r1].err.kind = "load"
        /\ th[r2].pc = "done" /\ th[r2].op = "Render" /\ th[r2].locked
        /\ th[r2].err.kind = "exec"

\* request r is inside a Render call that was issued while an outer Render
\* call of the same context was executing its tree
Nested(r) == th[r].outer # NoOuter

\* a step of the call in progress of request r is possible
CanStep(r) ==
    \/ ENABLED ExtendHop(r)
    \/ ENABLED Compile(r)
    \/ ENABLED StorePool(r)
    \/ ENABLED Store(r)
    \/ ENABLED (\E d \in DataValues : RenderExecute(r, d))

\* C11: a Render call issued while the same request context is inside Render
\* does not take the lock again and can always go on to its end; its return
\* neither releases the lock nor removes the guard flag, so the outer call
\* holds the lock until the outer call itself returns.
C11_NestedRender ==
    [][\A r \in Req :
          /\ (Executing(r) /\ calls < MaxCalls) =>
                \A n \in CallNames : ENABLED Render(r, n)
          /\ Nested(r) => mutex = r /\ flag[r] /\ ~th[r].locked /\ CanStep(r)
          /\ (Nested(r) /\ ~Nested(r)') =>
                /\ mutex' = r /\ flag'[r]
                /\ th'[r].pc = "parsed" /\ th'[r].locked /\ th'[r].inner # NoInner
          /\ (th[r].inner # NoInner /\ th[r].pc = "parsed" /\ th'[r].pc = "done") =>
                mutex = r /\ mutex' = None /\ ~flag'[r]]_vars

\* an outer Render call returned after a nested Render call of its context
\* had returned a page into it
C11_Witness ==
    \E r \in Req : /\ th[r].pc = "done" /\ th[r].op = "Render"
                    /\ th[r].inner # NoInner /\ th[r].inner.out.kind = "page"

(***************************************************************************)
(* Properties of the text pipeline, stated on DocSpec.                     *)
(***************************************************************************)
\* how often the directive v stands in the document s
Occ(s, v) == Len(SelectSeq(s, LAMBDA x : x = v))

\* the document has no directive of kind t
Without(s, t) == Matches(s, t) = <<>>

\* ContainsSubTpl has run on the main body (line 348)
Expanded == rs.pc \in {"define", "parsed", "done"} /\ rs.err.kind # "load"

\* an included file could not be read while the body s was expanded
ReadFailed(s) == \E i \in 1..Len(s) : s[i].t = "err" /\ s[i].a = "read"

\* C12: include expansion ends for every include graph, also when a file
\* includes itself directly or through another file; within one top-level
\* parse each included path is read and expanded at most once; no Include
\* directive is left, and each occurrence site holds one reference to the
\* sub-definition of its path.
C12_IncludeExpansion ==
    /\ \A p \in DOMAIN rs.st.loads : rs.st.loads[p] <= 1
    /\ Expanded =>
          /\ Without(rs.content, "inc")
          /\ \A p \in DOMAIN rs.st.subcs : Without(rs.st.subcs[p], "inc")
          /\ \A b \in DOMAIN rs.extcs : Without(rs.extcs[b], "inc")
          /\ (rs.parents = <<>> /\ ~ReadFailed(rs.content)) =>
                \A n \in DocNames :
                    Occ(rs.content, TplFile(n, ".")) = Occ(files[TmplPath(rs.name)], Inc(n))

\* a page that includes the same partial twice, the partial including
\* itself: the partial was read once, the page holds two references and the
\* partial's definition one
C12_Witness ==
    /\ rs.pc = "done" /\ rs.name = "c" /\ rs.err = NoErr
    /\ Occ(files[TmplPath("c")], Inc("p")) = 2
    /\ HasFile("p") /\ Occ(files[TmplPath("p")], Inc("p")) = 1
    /\ rs.st.loads[TmplPath("p")] = 1
    /\ Occ(rs.main, TplFile("p", ".")) = 2
    /\ Occ(rs.subdefs[TmplPath("p")], TplFile("p", ".")) = 1

\* C13: one top-level parse makes at most 10 turns of the Extend loop and
\* reads at most 10 parent files, then goes on to compile what it has, also
\* when the chain is cyclic and so never ends by itself.
C13_HopCap ==
    /\ rs.i <= MaxHops
    /\ Len(rs.parents) = rs.i
    /\ rs.pc = "hop" => rs.i < MaxHops
    /\ (rs.i = MaxHops /\ rs.err = NoErr) => rs.pc \in {"expand", "define", "parsed", "done"}

\* a page that extends itself was parsed to the end after 10 parent reads
C13_Witness ==
    /\ rs.pc = "done" /\ rs.name = "c"
    /\ ExtendMatch(files[TmplPath("c")], 1) = <<Ext_("c")>>
    /\ Len(rs.parents) = MaxHops
    /\ \A j \in 1..MaxHops : rs.parents[j] = "c"

\* the body of the one paired block named b of the document s
BodyOf(s, b) == (CHOOSE v \in {BlockMatches(s, 1)[j] : j \in 1..Len(BlockMatches(s, 1))} :
                    v.name = b).inner

\* the document s defines the paired block b exactly once
DefinesOnce(s, b) ==
    Cardinality({j \in 1..Len(BlockMatches(s, 1)) : BlockMatches(s, 1)[j].name = b}) = 1

\* text and super markers only
Plain(s) == \A j \in 1..Len(s) : s[j].t \in {"txt", "sup"}

\* the page "c" extends the layout "l", which is the end of the chain
TwoLevels ==
    /\ rs.name = "c" /\ rs.parents = <<"l">>
    /\ ExtendMatch(files[TmplPath("l")], 1) = <<>>

\* C14: for a page that extends a terminal layout, where the page defines
\* block b with a body X that holds the super marker and the layout defines
\* the paired block b with body Y, the definition bound to b in the resolved
\* document is X with the marker replaced by Y, and the layout calls it at
\* the place of its block.
C14_SuperSplice ==
    (rs.pc \in {"parsed", "done"} /\ rs.err = NoErr /\ TwoLevels) =>
        \A b \in {"x", "o"} :
            LET child == files[TmplPath("c")]
                parent == files[TmplPath("l")]
            IN  (/\ DefinesOnce(child, b) /\ DefinesOnce(parent, b)
                 /\ Plain(BodyOf(child, b)) /\ Plain(BodyOf(parent, b))
                 /\ Occ(BodyOf(child, b), Super) = 1) =>
                    /\ b \in DOMAIN rs.blockdefs
                    /\ rs.blockdefs[b] =
                          ReplaceFirst(BodyOf(child, b), <<Super>>, BodyOf(parent, b))
                    /\ Occ(rs.main, TplBlock(b, ".")) = 1

\* the page's body "hi {{Super}}!" met the layout's body "again"
C14_Witness ==
    /\ rs.pc = "done" /\ rs.err = NoErr /\ TwoLevels
    /\ BodyOf(files[TmplPath("c")], "x") = <<Txt("hi "), Super, Txt("!")>>
    /\ DefinesOnce(files[TmplPath("l")], "x")
    /\ BodyOf(files[TmplPath("l")], "x") = <<Txt("again")>>
    /\ rs.blockdefs["x"] = <<Txt("hi "), Txt("again"), Txt("!")>>
    /\ rs.out = <<Txt("<div>"), Txt("hi "), Txt("again"), Txt("!"), Txt("</div>")>>

\* text only
AllText(s) == \A j \in 1..Len(s) : s[j].t = "txt"

\* C15: a self-closing Block of a layout is replaced by the body the page
\* defined for that name: with the layout <div>{{Block "x"/}}</div> and a
\* page that extends it and defines block x with a text body, Fetch of the
\* page writes <div>, the body, </div>; for the body hello it writes
\* <div>hello</div>.
C15_PlaceholderFilled ==
    (/\ rs.pc = "done" /\ TwoLevels
     /\ files[TmplPath("l")] = <<Txt("<div>"), Rpl("x"), Txt("</div>")>>
     /\ DefinesOnce(files[TmplPath("c")], "x")
     /\ AllText(BodyOf(files[TmplPath("c")], "x"))) =>
        /\ rs.err = NoErr
        /\ rs.out = <<Txt("<div>")>> \o BodyOf(files[TmplPath("c")], "x") \o <<Txt("</div>")>>

\* the page {{Extend "l"}}{{Block "x"}}hello{{/Block}} was fetched
C15_Witness ==
    /\ rs.pc = "done" /\ TwoLevels
    /\ files[TmplPath("l")] = <<Txt("<div>"), Rpl("x"), Txt("</div>")>>
    /\ files[TmplPath("c")] = <<Ext_("l"), Blk("x"), Txt("hello"), EndBlk>>
    /\ rs.out = <<Txt("<div>"), Txt("hello"), Txt("</div>")>>

\* C16: with the default configuration, the page
\* {{Extend "l"}}{{Block "x"}}hi {{Super/}}!{{/Block}} against a layout whose
\* paired block x has the body again resolves block x to hi again!.
C16_SelfClosedSuper ==
    (/\ rs.pc = "done" /\ TwoLevels
     /\ files[TmplPath("c")] =
            <<Ext_("l"), Blk("x"), Txt("hi "), SuperSelfClosed, Txt("!"), EndBlk>>
     /\ files[TmplPath("l")] =
            <<Txt("<div>"), Blk("x"), Txt("again"), EndBlk, Txt("</div>")>>) =>
        /\ rs.err = NoErr
        /\ "x" \in DOMAIN rs.blockdefs
        /\ rs.blockdefs["x"] = <<Txt("hi "), Txt("again"), Txt("!")>>

\* the document s names block b, as a paired block or as a placeholder
Mentions(s, b) == Occ(s, Blk(b)) + Occ(s, Rpl(b)) > 0

\* the text v stands in the compiled page or in one of its definitions
Emitted(v) ==
    \/ Occ(rs.main, v) > 0
    \/ \E p \in DOMAIN rs.subdefs : Occ(rs.subdefs[p], v) > 0
    \/ \E b \in DOMAIN rs.blockdefs : Occ(rs.blockdefs[b], v) > 0

\* C17: for a page that extends a layout, a block the page defines and the
\* layout never names is not in the final document and is not among the
\* named definitions made for it.
C17_UnreferencedBlockDropped ==
    (rs.pc \in {"parsed", "done"} /\ rs.err = NoErr /\ TwoLevels) =>
        \A b \in {"x", "o"} :
            (/\ DefinesOnce(files[TmplPath("c")], b)
             /\ ~Mentions(files[TmplPath("l")], b)) =>
                /\ b \notin DOMAIN rs.blockdefs
                /\ b \notin DOMAIN rs.extcs
                /\ Occ(rs.main, TplBlock(b, ".")) = 0
                /\ \A j \in 1..Len(BodyOf(files[TmplPath("c")], b)) :
                       BodyOf(files[TmplPath("c")], b)[j].t = "txt" =>
                           /\ ~Emitted(BodyOf(files[TmplPath("c")], b)[j])
                           /\ Occ(rs.out, BodyOf(files[TmplPath("c")], b)[j]) = 0

\* the page defined x and o, the layout holds x only: x was bound, o dropped
C17_Witness ==
    /\ rs.pc = "done" /\ rs.err = NoErr /\ TwoLevels
    /\ DefinesOnce(files[TmplPath("c")], "o")
    /\ ~Mentions(files[TmplPath("l")], "o")
    /\ DOMAIN rs.blockdefs = {"x"}
    /\ Occ(rs.out, Txt("hello")) = 1

\* the document s begins, white space aside, with the directive v
BeginsWith(s, v) ==
    \E k \in 1..Len(s) : s[k] = v /\ \A j \in 1..(k - 1) : s[j] = Txt(" ")

\* the document s begins, white space aside, with an Extend directive
BeginsWithExtend(s) == \E n \in DocNames : BeginsWith(s, Ext_(n))

\* the document read before the j-th parent: the page, or the parent before
Child(j) == IF j = 1 THEN rs.name ELSE rs.parents[j - 1]

\* C18: only an Extend directive at the very start of a document (white
\* space before it aside) selects the next file of the chain; an Extend
\* directive anywhere else in a document is never followed: the parents read
\* are exactly those named at the start of the document read before, and no
\* other file is read because of an Extend directive.
C18_FirstExtendOnly ==
    /\ \A j \in 1..Len(rs.parents) :
           BeginsWith(files[TmplPath(Child(j))], Ext_(rs.parents[j]))
    /\ (rs.pc \in {"expand", "define", "parsed", "done"} /\ rs.err.kind # "load"
            /\ rs.i < MaxHops) =>
           ~BeginsWithExtend(files[TmplPath(Child(Len(rs.parents) + 1))])
    /\ \A p \in DOMAIN rs.st.loads :
           \E q \in DOMAIN files : Occ(files[q], Inc(p.file)) > 0

\* the page named the layout "l" at its start and "g" at its end, and "g"
\* exists: only "l" was read
C18_Witness ==
    /\ rs.pc = "done" /\ rs.name = "c" /\ rs.parents = <<"l">>
    /\ Occ(files[TmplPath("c")], Ext_("g")) = 1
    /\ Occ(files[TmplPath("l")], Ext_("g")) = 1
    /\ HasFile("g")

\* the Function directives of the documents of the directory
Directives == {v \in UNION {{files[q][j] : j \in 1..Len(files[q])} : q \in DOMAIN files} :
                 v.t = "fn"}

\* the memoization key of a Function directive
KeyOf(v) == v.a \o ":" \o v.b

\* a document with every Include directive turned into its template call
\* and every Function directive into the clip of its callback
RECURSIVE Rewritten(_, _)
Rewritten(s, i) ==
    IF i > Len(s) THEN <<>>
    ELSE (IF s[i].t = "inc" THEN <<TplFile(s[i].a, ".")>>
          ELSE IF s[i].t = "fn" /\ s[i].a \in funcs THEN <<Clip(s[i].a, s[i].b)>>
          ELSE IF s[i].t = "fn" THEN <<>>
          ELSE <<s[i]>>) \o Rewritten(s, i + 1)

\* the page has no Extend chain and every file it includes was read
Flat == Expanded /\ rs.parents = <<>> /\ ~ReadFailed(rs.content)
        /\ ~BeginsWithExtend(files[TmplPath(rs.name)])

\* C19: within one top-level parse the callback of a Function directive is
\* called at most once for each key name:argument, however often the
\* directive stands in the main body, in included files and in block bodies,
\* and every occurrence is replaced by the clip memoized for the key.
C19_FunctionOncePerKey ==
    /\ \A k \in DOMAIN rs.cl.invoked : rs.cl.invoked[k] <= 1
    /\ \A v \in Directives :
           (KeyOf(v) \in DOMAIN rs.cl.clips /\ v.a \in funcs) =>
               rs.cl.invoked[KeyOf(v)] = 1 /\ rs.cl.clips[KeyOf(v)] = <<Clip(v.a, v.b)>>
    /\ Expanded => Without(rs.content, "fn")
    /\ (rs.pc \in {"parsed", "done"} /\ rs.err = NoErr) =>
           /\ \A p \in DOMAIN rs.subdefs : Without(rs.subdefs[p], "fn")
           /\ \A b \in DOMAIN rs.blockdefs : Without(rs.blockdefs[b], "fn")
    /\ Flat => rs.content = Rewritten(files[TmplPath(rs.name)], 1)

\* the same directive stood twice in the page, in an included file and in
\* a block body of other runs; here: twice in the page and once in the
\* partial, with one call of the callback
C19_Witness ==
    /\ rs.pc = "done" /\ rs.name = "c" /\ rs.err = NoErr /\ "f" \in funcs
    /\ Occ(files[TmplPath("c")], Fn("f", "a")) = 2
    /\ HasFile("p") /\ Occ(files[TmplPath("p")], Fn("f", "a")) = 1
    /\ rs.cl.invoked["f:a"] = 1
    /\ Occ(rs.main, Clip("f", "a")) = 2
    /\ Occ(rs.subdefs[TmplPath("p")], Clip("f", "a")) = 1

\* C20: a Function directive whose name has no callback of the signature
\* (string, string) -> string is replaced by the empty string, the parse
\* does not fail because of it, and the empty result is memoized under the
\* directive's key without any call.
C20_UnregisteredFunctionEmpty ==
    /\ \A v \in Directives :
           (KeyOf(v) \in DOMAIN rs.cl.clips /\ v.a \notin funcs) =>
               rs.cl.clips[KeyOf(v)] = <<>> /\ KeyOf(v) \notin DOMAIN rs.cl.invoked
    /\ Flat =>
          /\ rs.content = Rewritten(files[TmplPath(rs.name)], 1)
          /\ (\A j \in 1..Len(files[TmplPath(rs.name)]) :
                  files[TmplPath(rs.name)][j].t \in {"txt", "inc", "fn"}) =>
                 rs.err.kind # "parse"
          /\ \A v \in Directives :
                 Occ(files[TmplPath(rs.name)], v) > 0 => KeyOf(v) \in DOMAIN rs.cl.clips

\* a page with a Function directive that has no callback was fetched
C20_Witness ==
    /\ rs.pc = "done" /\ rs.err = NoErr /\ "h" \notin funcs
    /\ Occ(files[TmplPath(rs.name)], Fn("h", "")) = 1
    /\ rs.cl.clips["h:"] = <<>>
    /\ Without(rs.main, "fn")
    /\ \A j \in 1..Len(rs.out) : rs.out[j].t # "err"

\* the page "c" extends the layout "l", which extends the terminal layout "g"
ThreeLevels ==
    /\ rs.name = "c" /\ rs.parents = <<"l", "g">>
    /\ ExtendMatch(files[TmplPath("g")], 1) = <<>>

\* C21: a block a page defines is dropped only if no layout of the chain
\* names it: in the chain page -> parent -> grandparent, where the page
\* defines block b, the parent does not name b and the grandparent holds the
\* paired block b, the page's body is the one bound to b in the resolved
\* document.
C21_PrunedOnlyIfNowhere ==
    (rs.pc \in {"parsed", "done"} /\ rs.err = NoErr /\ ThreeLevels) =>
        \A b \in {"x", "o"} :
            (/\ DefinesOnce(files[TmplPath("c")], b)
             /\ AllText(BodyOf(files[TmplPath("c")], b))
             /\ ~Mentions(files[TmplPath("l")], b)
             /\ DefinesOnce(files[TmplPath("g")], b)) =>
                /\ b \in DOMAIN rs.blockdefs
                /\ rs.blockdefs[b] = BodyOf(files[TmplPath("c")], b)
                /\ Occ(rs.main, TplBlock(b, ".")) = 1

\* the names of the paired blocks of the document s
PairedNames(s) == {BlockMatches(s, 1)[j].name : j \in 1..Len(BlockMatches(s, 1))}

\* the names ParseExtend gives to the occurrences of the paired blocks of s:
\* the name itself, and the name with the number of a repeated occurrence
NumberedNames(s) ==
    PairedNames(s) \cup
    {b \o Suffix(idx) : b \in PairedNames(s), idx \in 1..Len(BlockMatches(s, 1))}

\* the layout read at the last hop taken
LastLayout == files[TmplPath(rs.parents[Len(rs.parents)])]

\* C22: after every hop of the Extend chain the block set holds only names
\* that occur as a paired block (or as one of its numbered repeats) in the
\* layout read at that hop; every other name was removed at that hop.
C22_BlockSetAfterHop ==
    (rs.parents # <<>> /\ rs.err.kind # "load") =>
        DOMAIN rs.extcs \subseteq NumberedNames(LastLayout)

\* after the first hop of page -> l -> g: the page defined x and o, the
\* layout l pairs x only, and the block set is {x} before g is read
C22_Witness ==
    /\ rs.pc = "hop" /\ rs.i = 1 /\ rs.parents = <<"l">>
    /\ DefinesOnce(files[TmplPath("c")], "o")
    /\ DefinesOnce(files[TmplPath("c")], "x")
    /\ PairedNames(LastLayout) = {"x"}
    /\ DOMAIN rs.extcs = {"x"}

\* the documents of the chain, from the page to the last layout read
Levels == <<rs.name>> \o rs.parents

\* the levels below the last one that define the paired block b
Definers(b) == {j \in 1..(Len(Levels) - 1) : DefinesOnce(files[TmplPath(Levels[j])], b)}

\* the least number of a set of numbers
Least(S) == CHOOSE j \in S : \A k \in S : j <= k

\* C23: override precedence is leaf to root along the whole chain: when
\* several levels define the same block with bodies that hold no super
\* marker, the body of the level closest to the page is the one bound in the
\* resolved document, and the last layout's own body is used only when no
\* level below it defines the block.
C23_LeafToRoot ==
    (/\ rs.pc \in {"parsed", "done"} /\ rs.err = NoErr /\ rs.parents # <<>>
     /\ ExtendMatch(LastLayout, 1) = <<>>) =>
        \A b \in {"x", "o"} :
            (/\ DefinesOnce(LastLayout, b) /\ AllText(BodyOf(LastLayout, b))
             /\ \A j \in Definers(b) : AllText(BodyOf(files[TmplPath(Levels[j])], b))) =>
                IF Definers(b) = {}
                THEN /\ b \notin DOMAIN rs.blockdefs
                     /\ \A k \in 1..Len(BodyOf(LastLayout, b)) :
                            Occ(rs.main, BodyOf(LastLayout, b)[k]) > 0
                ELSE /\ b \in DOMAIN rs.blockdefs
                     /\ rs.blockdefs[b] =
                            BodyOf(files[TmplPath(Levels[Least(Definers(b))])], b)
                     /\ Occ(rs.main, TplBlock(b, ".")) = 1

\* C24: on every cache hit the function map of the calling request (the
\* engine's functions overlaid by those of the request context, with
\* hasBlock and hasAnyBlock) is bound onto the cached tree before the tree
\* is returned: the tree the call gets and the tree in the cache both carry
\* the caller's map, whoever compiled or last used the tree.
C24_HitRebindsFuncs ==
    [][\A r \in Req : (CallStart(r) /\ th'[r].hit) =>
          /\ th'[r].tmpl.funcs = r
          /\ th'[r].key \in DOMAIN cache'
          /\ cache'[th'[r].key].tpl0 = th'[r].tmpl
          /\ Unbound(th'[r].tmpl) = Unbound(cache[th'[r].key].tpl0)]_vars

\* r1 compiled the tree with its own function map; r2 got the same tree
\* from the cache, bound to the map of r2
C24_Witness ==
    /\ th["r1"].pc = "done" /\ ~th["r1"].hit /\ th["r1"].tmpl.kind = "tree"
    /\ th["r1"].tmpl.funcs = "r1"
    /\ th["r2"].pc = "done" /\ th["r2"].hit /\ th["r2"].key = th["r1"].key
    /\ th["r2"].tmpl.funcs = "r2"
    /\ Unbound(th["r2"].tmpl) = Unbound(th["r1"].tmpl)
    /\ cache[th["r2"].key].tpl0.funcs = "r2"

\* this step is the return of a successful parse of request r: the step
\* that stores the standalone tree
ParseSucceeds(r) == th[r].pc = "bind" /\ th'[r].pc = "parsed"

\* C25: after a successful top-level parse of key K the cache holds an entry
\* for every parent read along the Extend chain and for every path of the
\* include pool, the dependents set of each of them contains K, and the
\* dependents set of K's own entry contains K.
C25_DependentsRecorded ==
    [][\A r \in Req : ParseSucceeds(r) =>
          \A p \in DOMAIN th[r].vers \cup th[r].subcs \cup {th[r].key} :
              /\ p \in DOMAIN cache'
              /\ th[r].key \in cache'[p].rel]_vars

\* this step is the loop of request r over the include pool
PoolStored(r) == th[r].pc = "store" /\ th'[r].pc # "store"

\* C26: the two tree slots of a cache entry are independent: storing the
\* standalone tree of a key leaves the fragment tree stored under that key
\* as it was, and storing fragment trees leaves every standalone tree as it
\* was, for every parse, the parse of a template that includes itself
\* among them.
C26_SlotsIndependent ==
    [][\A r \in Req :
          /\ (ParseSucceeds(r) /\ th[r].key \in DOMAIN cache) =>
                cache'[th[r].key].tpl1 = cache[th[r].key].tpl1
          /\ PoolStored(r) =>
                \A k \in DOMAIN cache :
                    k \in DOMAIN cache' /\ cache'[k].tpl0 = cache[k].tpl0]_vars

\* the names the document s includes
IncludedBy(s) == {s[j].a : j \in {i \in 1..Len(s) : s[i].t = "inc"}}

\* the names S and what the files of S include, directly
IncludeStep(S) == S \cup UNION {IncludedBy(files[TmplPath(n)]) : n \in {x \in S : HasFile(x)}}

\* the names the document s includes, directly or through included files
RECURSIVE IncludeClosure(_)
IncludeClosure(S) == IF IncludeStep(S) = S THEN S ELSE IncludeClosure(IncludeStep(S))

\* C27: for every input, an input that includes a file that cannot be read
\* among them, the body ContainsSubTpl returns holds no Include directive
\* and the pool holds, for every path the input includes directly or
\* through included files, the final expanded body of that path.
C27_PoolComplete ==
    (Expanded /\ rs.parents = <<>>) =>
        /\ Without(rs.content, "inc")
        /\ \A n \in IncludeClosure(IncludedBy(files[TmplPath(rs.name)])) :
               /\ TmplPath(n) \in DOMAIN rs.st.subcs
               /\ Without(rs.st.subcs[TmplPath(n)], "inc")

\* C28: when the last layout holds k paired blocks of one name and the page
\* overrides that name, the k occurrences are bound to k pairwise distinct
\* names, and with the super marker each occurrence is resolved against its
\* own inner body; the names are distinct for every k, k above 256 included.
C28_RepeatsDistinct ==
    lp.on =>
        LET bound == Matches(lp.out, "tplb")
            defs == Kept(lp.x.extcs, lp.x.rec)
        IN  /\ Len(bound) = lp.n
            /\ Cardinality({bound[j].a : j \in 1..Len(bound)}) = lp.n
            /\ \A j \in 1..Len(bound) :
                   /\ bound[j].a \in DOMAIN defs
                   /\ Occ(lp.body, Super) = 1 =>
                          defs[bound[j].a] = ReplaceFirst(lp.body, <<Super>>, Occurrence(j).inner)

\* C29: after any change of the delimiter pair or of a tag keyword, the
\* patterns the next parse scans with are the ones derived from the
\* configuration the engine has at that parse.
C29_PatternsFollowConf ==
    scanned.kind = "scan" =>
        /\ scanned.regex = Patterns(scanned.conf)
        /\ scanned.found = Finds(Patterns(scanned.conf).incTagRegex, scanned.text)

\* C30: a delete, modify or rename event for a non-directory file whose
\* name is not a key of the cache leaves the cache map as it is, and every
\* registered monitor function is still called once with that name.
C30_EventForUncachedFile ==
    [][\A n \in WatchedNames, e \in {"delete", "modify", "rename"} :
          (FileEvent(n, "file", e) /\ watching /\ TmplPath(n) \notin DOMAIN cache) =>
             /\ cache' = cache
             /\ monitors > 0 => notified' = [n |-> monitors, name |-> TmplPath(n)]]_vars

\* the cache holds trees, none of them under the name of the event, and
\* the monitor function was called with that name
C30_Witness ==
    /\ changes = 1 /\ notified.n = monitors /\ monitors > 0
    /\ notified.name \notin DOMAIN cache
    /\ \E k \in DOMAIN cache : HasStandalone(cache, k)
    /\ \A k \in DOMAIN cache : cache[k].tpl0 # NoTree =>
           notified.name \notin DOMAIN cache[k].tpl0.vers

\* C31: while a Render call on engine E executes parse, the mutex of E is
\* held for that request, also when the request context already carries
\* the guard flag because a Render on another engine instance is in
\* progress for the same context.
C31_OwnLockDuringParse ==
    \A c \in Contexts :
        (frames[c] # <<>> /\ Top(c).pc = "parse") => elock[Top(c).engine] = c

\* C32: when concurrent requests use the same cached template through any
\* mix of Render and Fetch, the tree a request got from parse stays bound
\* to the function map of that request until the request has executed it:
\* no other request's rebinding of the shared tree comes in between.
C32_OwnFuncsUntilExecuted ==
    \A r \in Req :
        (/\ th[r].pc = "parsed"
         /\ th[r].tmpl # NoTree
         /\ th[r].key \in DOMAIN cache
         /\ Unbound(cache[th[r].key].tpl0) = Unbound(th[r].tmpl))
        => cache[th[r].key].tpl0.funcs = r

\* C33: a parse never modifies the map the engine-level function provider
\* returns: when the provider returns the same map on every call, that map
\* keeps exactly the entries the application gave it, and what a request
\* supplied is not seen by a later request that does not supply it.
C33_ProviderMapUntouched ==
    /\ \A e \in Engines : provider[e] = "same" => emap[e] = EngineFuncs
    /\ \A n \in EntryNames :
           binding.funcs[n] \in Contexts => (binding.funcs[n] = binding.ctx /\ n \in binding.supplied \cup {"value"})

\* C34: no operation of an engine closes the process-wide default manager
\* that the other engine instances share: Close only cancels the watch
\* directory and the callback of this engine on it, and SetManager leaves
\* the default manager running.
C34_DefaultManagerRuns == ~closed["Default"]

\* C35: in the pongo2 driver, once a delete, modify or rename event of a
\* template file has been handled, no cached template whose compilation
\* read that file (the file itself or a template that extends or includes
\* it) is left in the cache: every cached template was compiled from the
\* files as they are after the last handled event.
C35_NoStaleTemplate ==
    \A k \in DOMAIN templates : \A s \in ReadBy(k) : templates[k][s] = pfs[s].ver

\* C36: for a balancer created with pairwise distinct target names, after
\* any interleaving of concurrent AddTarget and RemoveTarget calls the list
\* holds no two targets of the same name.
C36_NamesDistinct ==
    \A i, j \in 1..Len(targets) : targets[i] = targets[j] => i = j

\* C37: roundRobinBalancer.Next never indexes outside the target list and
\* returns a member of the list it indexed, under any interleaving with
\* concurrent Next, AddTarget and RemoveTarget calls that leaves at least
\* one target in the list.
C37_NextInsideList ==
    \A p \in Procs :
        pt[p].op = "Next" =>
            /\ pt[p].pc = "panic" => pt[p].n = 0
            /\ pt[p].pc \in {"inc", "done"} => (pt[p].k < pt[p].n /\ pt[p].got \in TargetNames)

====
